---- MODULE Spec2Model ----
(***************************************************************************)
(* Recurring-schedule expansion, lifecycle reconciliation and credit       *)
(* ledger of the TeacherBackend music-school scheduler.                    *)
(*                                                                         *)
(* Dates are day ordinals counted from 2025-01-01 (ordinal 0); times of    *)
(* day are minutes after midnight.  NoDate / NoId stand for SQL NULL.      *)
(***************************************************************************)
EXTENDS Integers, Sequences, FiniteSets, TLC

NoDate == 0 - 1
NoId == 0

(***************************************************************************)
(* Calendar (python datetime.date).                                        *)
(***************************************************************************)
EpochYear == 2025

IsLeap(y) == (y % 4 = 0 /\ y % 100 # 0) \/ (y % 400 = 0)

DaysInMonth(y, m) ==
    IF m = 2 THEN (IF IsLeap(y) THEN 29 ELSE 28)
    ELSE IF m \in {4, 6, 9, 11} THEN 30 ELSE 31

RECURSIVE DaysBeforeYear(_)
DaysBeforeYear(y) ==
    IF y <= EpochYear THEN 0
    ELSE DaysBeforeYear(y - 1) + (IF IsLeap(y - 1) THEN 366 ELSE 365)

RECURSIVE DaysBeforeMonth(_, _)
DaysBeforeMonth(y, m) ==
    IF m <= 1 THEN 0 ELSE DaysBeforeMonth(y, m - 1) + DaysInMonth(y, m - 1)

\* date(y, m, d)
MkDate(y, m, d) == DaysBeforeYear(y) + DaysBeforeMonth(y, m) + (d - 1)

RECURSIVE YearFrom(_, _)
YearFrom(n, y) == IF n < DaysBeforeYear(y + 1) THEN y ELSE YearFrom(n, y + 1)

\* date.year
YearOf(n) == YearFrom(n, EpochYear)

RECURSIVE MonthFrom(_, _, _)
MonthFrom(n, y, m) ==
    IF n < MkDate(y, m, 1) + DaysInMonth(y, m) THEN m ELSE MonthFrom(n, y, m + 1)

\* date.month
MonthOf(n) == MonthFrom(n, YearOf(n), 1)

\* date.weekday(): Monday = 0 ... Sunday = 6; 2025-01-01 is a Wednesday
Weekday(n) == (n + 2) % 7

(***************************************************************************)
(* Holiday table.                                                          *)
(***************************************************************************)
HOLIDAYS_2025 ==
    { MkDate(2025, 1, 1), MkDate(2025, 1, 22), MkDate(2025, 2, 24),
      MkDate(2025, 2, 25), MkDate(2025, 4, 18), MkDate(2025, 5, 1),
      MkDate(2025, 6, 19), MkDate(2025, 6, 21), MkDate(2025, 8, 6),
      MkDate(2025, 11, 2), MkDate(2025, 12, 25) }

HOLIDAYS_2026 ==
    { MkDate(2026, 1, 1), MkDate(2026, 1, 22), MkDate(2026, 2, 16),
      MkDate(2026, 2, 17), MkDate(2026, 4, 3), MkDate(2026, 5, 1),
      MkDate(2026, 6, 21), MkDate(2026, 8, 6), MkDate(2026, 11, 2),
      MkDate(2026, 12, 25) }

ALL_HOLIDAYS == HOLIDAYS_2025 \cup HOLIDAYS_2026

\* variant: only the 2025 table is consulted
is_holiday_2025(check_date) == check_date \in HOLIDAYS_2025

is_holiday(check_date) == check_date \in ALL_HOLIDAYS

(***************************************************************************)
(* Enumerations.                                                           *)
(***************************************************************************)
EnrollmentStatus == {"active", "suspended", "withdrawn"}
ClassStatus == {"scheduled", "completed", "cancelled", "rescheduled"}
ClassType == {"regular", "recovery"}
ClassFormat == {"individual", "group"}
AttendanceStatus == {"present", "absent", "license"}

DayOfWeek ==
    {"monday", "tuesday", "wednesday", "thursday", "friday", "saturday", "sunday"}

DAY_MAP ==
    [d \in DayOfWeek |->
        CASE d = "monday" -> 0
          [] d = "tuesday" -> 1
          [] d = "wednesday" -> 2
          [] d = "thursday" -> 3
          [] d = "friday" -> 4
          [] d = "saturday" -> 5
          [] d = "sunday" -> 6]

\* the element of a one-element set
The(S) == CHOOSE x \in S : TRUE

Min2(a, b) == IF a <= b THEN a ELSE b

RECURSIVE SetToSeq(_)
\* rows of a query in ascending id order
SetToSeq(S) ==
    IF S = {} THEN << >>
    ELSE LET m == CHOOSE x \in S : \A y \in S : x <= y
         IN << m >> \o SetToSeq(S \ {m})

(***************************************************************************)
(* Class generation engine (app/jobs/class_generator.py).                  *)
(* A "db" value is the stored Class table with its id sequence:            *)
(*   [classes |-> set of rows, nextId |-> next serial id].                 *)
(***************************************************************************)

\* variant: the target month is not carried over into the next year
EndDate_NoRollover(schedule, months_ahead) ==
    LET start_date == schedule.valid_from
        raw_month == MonthOf(start_date) + months_ahead
        target_month == IF raw_month > 12 THEN 12 ELSE raw_month
        next_month_start ==
            IF target_month = 12
            THEN MkDate(YearOf(start_date) + 1, 1, 1)
            ELSE MkDate(YearOf(start_date), target_month + 1, 1)
        end_date == next_month_start - 1
    IN  IF schedule.valid_until # NoDate
        THEN Min2(end_date, schedule.valid_until)
        ELSE end_date

\* end_date of the generation window of one schedule
EndDate(schedule, months_ahead) ==
    LET start_date == schedule.valid_from
        raw_month == MonthOf(start_date) + months_ahead
        \* while target_month > 12: target_month -= 12; target_year += 1
        wraps == IF raw_month > 12 THEN (raw_month - 1) \div 12 ELSE 0
        target_month == raw_month - 12 * wraps
        target_year == YearOf(start_date) + wraps
        next_month_start ==
            IF target_month = 12
            THEN MkDate(target_year + 1, 1, 1)
            ELSE MkDate(target_year, target_month + 1, 1)
        end_date == next_month_start - 1
    IN  IF schedule.valid_until # NoDate
        THEN Min2(end_date, schedule.valid_until)
        ELSE end_date

RECURSIVE FindFirst(_, _, _)
\* first date >= start_date on the target weekday; NoDate when the
\* seven-day guard trips
FindFirst(current_date, start_date, target_weekday) ==
    IF Weekday(current_date) = target_weekday THEN current_date
    ELSE IF current_date + 1 > start_date + 7 THEN NoDate
    ELSE FindFirst(current_date + 1, start_date, target_weekday)

\* variant: the duplicate check is missing
ExistingClasses_None(rows, schedule, current_date) == {}

\* variant: the duplicate check only looks at rows still scheduled
ExistingClasses_ScheduledOnly(rows, schedule, current_date) ==
    { c \in rows : c.schedule_id = schedule.id
                   /\ c.date = current_date
                   /\ c.time = schedule.time
                   /\ c.status = "scheduled" }

\* rows matched by the duplicate check (schedule_id, date, time)
ExistingClasses(rows, schedule, current_date) ==
    { c \in rows : c.schedule_id = schedule.id
                   /\ c.date = current_date
                   /\ c.time = schedule.time }

\* the Class(...) built for one occurrence (id is assigned at flush)
NewClass(schedule, enrollment_id, enrollment, current_date) ==
    [ id |-> NoId,
      schedule_id |-> schedule.id,
      enrollment_id |-> enrollment_id,
      teacher_id |-> schedule.teacher_id,
      date |-> current_date,
      time |-> schedule.time,
      duration |-> schedule.duration,
      status |-> "scheduled",
      type |-> "regular",
      format |-> enrollment.format ]

EmptyStats == [ created |-> 0, skipped |-> 0, errors |-> << >>,
                raised |-> FALSE, pending |-> << >> ]

RECURSIVE WalkWeeks(_, _, _, _, _, _, _)
\* the weekly loop; rows is what the session's SELECT can see
\* (autoflush is off, so rows added by this run are not among them)
WalkWeeks(current_date, end_date, schedule, enrollment_id, enrollment, rows, stats) ==
    IF current_date > end_date THEN stats
    ELSE IF is_holiday(current_date)
    THEN WalkWeeks(current_date + 7, end_date, schedule, enrollment_id, enrollment, rows,
                   [stats EXCEPT !.skipped = @ + 1])
    ELSE LET found == ExistingClasses(rows, schedule, current_date)
         IN  IF Cardinality(found) > 1
             THEN [stats EXCEPT !.raised = TRUE]     \* scalar_one_or_none raises
             ELSE IF found # {}
             THEN WalkWeeks(current_date + 7, end_date, schedule, enrollment_id,
                            enrollment, rows, [stats EXCEPT !.skipped = @ + 1])
             ELSE WalkWeeks(current_date + 7, end_date, schedule, enrollment_id,
                            enrollment, rows,
                            [stats EXCEPT
                               !.created = @ + 1,
                               !.pending = Append(@, NewClass(schedule, enrollment_id,
                                                              enrollment, current_date))])

_generate_classes_for_schedule(rows, schedule, enrollment_id, enrollment, months_ahead) ==
    LET start_date == schedule.valid_from
        end_date == EndDate(schedule, months_ahead)
        first == FindFirst(start_date, start_date, DAY_MAP[schedule.day])
    IN  IF first = NoDate
        THEN [EmptyStats EXCEPT !.errors = << "weekday not found" >>]
        ELSE WalkWeeks(first, end_date, schedule, enrollment_id, enrollment, rows,
                       EmptyStats)

RECURSIVE ForSchedules(_, _, _, _, _, _)
\* for schedule in schedules: stats += _generate_classes_for_schedule(...)
ForSchedules(todo, rows, enrollment_id, enrollment, months_ahead, stats) ==
    IF todo = << >> \/ stats.raised THEN stats
    ELSE The({ ForSchedules(Tail(todo), rows, enrollment_id, enrollment, months_ahead,
                            [ created |-> stats.created + r.created,
                              skipped |-> stats.skipped + r.skipped,
                              errors |-> stats.errors \o r.errors,
                              raised |-> r.raised,
                              pending |-> stats.pending \o r.pending ]) :
               r \in { _generate_classes_for_schedule(rows, Head(todo), enrollment_id,
                                                      enrollment, months_ahead) } })

\* db.commit(): the pending rows get the next serial ids
Flush(db, pending) ==
    [ classes |-> db.classes \cup
                  { [pending[i] EXCEPT !.id = db.nextId + i - 1] : i \in 1..Len(pending) },
      nextId |-> db.nextId + Len(pending) ]

\* variant: only the existence of the enrollment is checked
EnrollmentError_OnlyMissing(enr, enrollment_id) ==
    IF enrollment_id \notin DOMAIN enr THEN "Enrollment no existe" ELSE ""

\* the enrollment checks at the head of generate_classes_for_enrollment;
\* "" when generation may proceed
EnrollmentError(enr, enrollment_id) ==
    IF enrollment_id \notin DOMAIN enr THEN "Enrollment no existe"
    ELSE IF enr[enrollment_id].status # "active" THEN "Enrollment no esta activo"
    ELSE ""

ErrorResult(msg) ==
    [ error |-> msg, created |-> 0, skipped |-> 0, errors |-> << >>, raised |-> FALSE ]

\* what the function does once the weekly loops have returned st
Finish(db, st) ==
    IF st.raised
    THEN [db |-> db,
          res |-> [ error |-> "", created |-> 0, skipped |-> 0,
                    errors |-> << >>, raised |-> TRUE ]]
    ELSE [db |-> Flush(db, st.pending),
          res |-> [ error |-> "", created |-> st.created,
                    skipped |-> st.skipped, errors |-> st.errors,
                    raised |-> FALSE ]]

\* returns [db |-> the table afterwards, res |-> the returned dict];
\* res.raised: an exception left the function and nothing was committed
generate_classes_for_enrollment(db, enr, sch, enrollment_id, months_ahead) ==
    IF EnrollmentError(enr, enrollment_id) # ""
    THEN [db |-> db, res |-> ErrorResult(EnrollmentError(enr, enrollment_id))]
    ELSE LET ids == { i \in DOMAIN sch :
                        sch[i].enrollment_id = enrollment_id /\ sch[i].active }
             todo == [ j \in 1..Cardinality(ids) |-> sch[SetToSeq(ids)[j]] ]
         IN  IF ids = {}
             THEN [db |-> db, res |-> ErrorResult("No hay horarios definidos")]
             ELSE The({ Finish(db, st) :
                        st \in { ForSchedules(todo, db.classes, enrollment_id,
                                              enr[enrollment_id], months_ahead,
                                              EmptyStats) } })

\* the totals after the result r of one enrollment has been added
AddResult(total, enrollment_id, r) ==
    IF r.raised THEN [total EXCEPT !.raised = TRUE]
    ELSE IF r.error = ""
    THEN [total EXCEPT !.created = @ + r.created,
                       !.skipped = @ + r.skipped,
                       !.errors = @ \o r.errors,
                       !.processed = @ + 1]
    \* f"Enrollment {enrollment.id}: {result['error']}"
    ELSE [total EXCEPT !.errors = Append(@, << enrollment_id, r.error >>)]

RECURSIVE MonthlyLoop(_, _, _, _, _)
\* for enrollment in enrollments: generate_classes_for_enrollment(..., 1)
MonthlyLoop(todo, db, enr, sch, total) ==
    IF todo = << >> \/ total.raised THEN [db |-> db, res |-> total]
    ELSE The({ The({ MonthlyLoop(Tail(todo), g.db, enr, sch, t) :
                     t \in { AddResult(total, Head(todo), g.res) } }) :
               g \in { generate_classes_for_enrollment(db, enr, sch, Head(todo), 1) } })

\* returns [db, res]; res.processed is enrollments_processed
generate_monthly_classes(db, enr, sch) ==
    LET active == { e \in DOMAIN enr : enr[e].status = "active" }
    IN  MonthlyLoop(SetToSeq(active), db, enr, sch,
                    [ created |-> 0, skipped |-> 0, processed |-> 0,
                      errors |-> << >>, raised |-> FALSE ])

(***************************************************************************)
(* Lifecycle reconciler (app/jobs/class_generator.py).                     *)
(***************************************************************************)

\* variant: the status filter is missing
FutureOfSchedule_AnyStatus(rows, schedule_id, from_date) ==
    { c \in rows : c.schedule_id = schedule_id /\ c.date >= from_date }

\* rows selected by delete_future_classes_for_schedule
FutureOfSchedule(rows, schedule_id, from_date) ==
    { c \in rows : c.schedule_id = schedule_id
                   /\ c.date >= from_date
                   /\ c.status = "scheduled" }

\* variant: every class that is not cancelled yet is selected
FutureOfEnrollment_NotCancelled(rows, enrollment_id, from_date) ==
    { c \in rows : c.enrollment_id = enrollment_id
                   /\ c.date >= from_date
                   /\ c.status # "cancelled" }

\* rows selected by cancel_future_classes_for_enrollment
FutureOfEnrollment(rows, enrollment_id, from_date) ==
    { c \in rows : c.enrollment_id = enrollment_id
                   /\ c.date >= from_date
                   /\ c.status = "scheduled" }


(***************************************************************************)
(* Bounds and input sets.                                                  *)
(***************************************************************************)
MaxMonthsAhead == 1
MaxDeleted == 2
MaxWindowMonths == 2
MaxRecoveries == 2
MaxMonthlyRuns == 4

MonthsAhead == 0..MaxMonthsAhead
EnrollIds == {1, 2}
MissingEnrollId == 3
SchedIds == {1, 2, 3}
TeacherId == 1

\* 16:00 and 18:00
Time1600 == 16 * 60
Time1800 == 18 * 60

\* cut-off dates handed to the reconciler
FromDates == { MkDate(2025, 12, 20), MkDate(2026, 1, 10) }

\* first days of validity tried for the generation window: mid-November,
\* the week of Christmas, the last day of January
WindowFroms == { MkDate(2025, 11, 10), MkDate(2025, 12, 22), MkDate(2026, 1, 31) }

\* how long after valid_from a bounded schedule ends
WindowSpan == 20

\* teacher of the schedules in the window runs (not the enrollment's teacher)
WindowTeacherId == 2

\* the day of the first monthly job and the first days of validity of the
\* schedule it serves: an old one, one of the month before, one of the month
\* of the first job
FirstJobDay == MkDate(2025, 10, 10)
MonthlyFroms == { MkDate(2025, 6, 2), MkDate(2025, 9, 22), MkDate(2025, 10, 6) }

\* regular classes on file when the credit ledger is exercised
LedgerClasses == 2

\* date of a recovery class
RecoveryDate == MkDate(2025, 12, 27)

\* dates of the classes entered by hand
ManualDate == MkDate(2026, 1, 12)
EarlyManualDate == MkDate(2025, 12, 19)

\* date of the class whose status is edited by hand
EditDate == MkDate(2026, 1, 15)

(***************************************************************************)
(* State.                                                                  *)
(***************************************************************************)
VARIABLES
    enrollments,   \* id -> [status, credits, format, teacher_id]
    schedules,     \* id -> Schedule row
    classes,       \* set of Class rows
    nextClassId,   \* serial of classes.id
    attendances,   \* set of Attendance rows
    nextAttId,     \* serial of attendances.id
    today,         \* the calendar date
    runs,          \* the generation requests in flight, by session
    last           \* the last call and what it returned

vars == << enrollments, schedules, classes, nextClassId, attendances, nextAttId,
           today, runs, last >>

NoCall ==
    [ op |-> "none", id |-> NoId, arg |-> 0, was |-> "", to |-> "", ok |-> TRUE, error |-> "",
      created |-> 0, skipped |-> 0, count |-> 0, processed |-> 0,
      errors |-> << >>, raised |-> FALSE ]

DB == [classes |-> classes, nextId |-> nextClassId]

\* sessions that may run the generator at the same time
RunIds == {1, 2}

\* a session with no request in flight
IdleRun ==
    [ pc |-> "idle", enrollment_id |-> NoId, months_ahead |-> 0, todo |-> << >>,
      pending |-> << >>, created |-> 0, skipped |-> 0, error |-> "" ]

NoRuns == [ r \in RunIds |-> IdleRun ]

InitEnrollments ==
    [ e \in EnrollIds |->
        [ status |-> "active", credits |-> 0, teacher_id |-> TeacherId,
          format |-> IF e = 1 THEN "individual" ELSE "group" ] ]

\* 1: Thursday slot 2025-12-22 .. 2026-01-15 (Dec 25 and Jan 1 are holidays)
\* 2: Tuesday slot 2025-12-15 .. 2025-12-23 of the group enrollment
\* 3: a deactivated slot of enrollment 1
InitSchedules ==
    [ i \in SchedIds |->
        CASE i = 1 ->
               [ id |-> 1, enrollment_id |-> 1, teacher_id |-> TeacherId,
                 day |-> "thursday", time |-> Time1600, duration |-> 45,
                 valid_from |-> MkDate(2025, 12, 22),
                 valid_until |-> MkDate(2026, 1, 15), active |-> TRUE ]
          [] i = 2 ->
               [ id |-> 2, enrollment_id |-> 2, teacher_id |-> TeacherId,
                 day |-> "tuesday", time |-> Time1800, duration |-> 60,
                 valid_from |-> MkDate(2025, 12, 15),
                 valid_until |-> MkDate(2025, 12, 23), active |-> TRUE ]
          [] i = 3 ->
               [ id |-> 3, enrollment_id |-> 1, teacher_id |-> TeacherId,
                 day |-> "friday", time |-> Time1600, duration |-> 45,
                 valid_from |-> MkDate(2025, 12, 1), valid_until |-> NoDate,
                 active |-> FALSE ] ]

Init ==
    /\ enrollments = InitEnrollments
    /\ schedules = InitSchedules
    /\ classes = {}
    /\ nextClassId = 1
    /\ attendances = {}
    /\ nextAttId = 1
    /\ today = MkDate(2025, 12, 10)
    /\ runs = NoRuns
    /\ last = NoCall

(***************************************************************************)
(* Operations of the generation engine and the reconciler.                 *)
(***************************************************************************)

\* POST /jobs/generate-classes/{enrollment_id}
GenerateForEnrollment(e, k) ==
    \E g \in { generate_classes_for_enrollment(DB, enrollments, schedules, e, k) } :
        /\ classes' = g.db.classes
        /\ nextClassId' = g.db.nextId
        /\ last' = [ NoCall EXCEPT !.op = "generate", !.id = e, !.arg = k,
                                   !.ok = (g.res.error = "" /\ ~g.res.raised),
                                   !.error = g.res.error,
                                   !.created = g.res.created,
                                   !.skipped = g.res.skipped,
                                   !.errors = g.res.errors,
                                   !.raised = g.res.raised ]
        /\ UNCHANGED << enrollments, schedules, attendances, nextAttId, today, runs >>

\* POST /jobs/generate-classes and the monthly job
GenerateMonthly ==
    \E g \in { generate_monthly_classes(DB, enrollments, schedules) } :
        /\ classes' = g.db.classes
        /\ nextClassId' = g.db.nextId
        /\ last' = [ NoCall EXCEPT !.op = "monthly", !.arg = 1,
                                   !.ok = ~g.res.raised,
                                   !.created = g.res.created,
                                   !.skipped = g.res.skipped,
                                   !.processed = g.res.processed,
                                   !.errors = g.res.errors,
                                   !.raised = g.res.raised ]
        /\ UNCHANGED << enrollments, schedules, attendances, nextAttId, today, runs >>

\* rows hard-deleted so far: serial ids handed out minus rows present
RowsDeleted == (nextClassId - 1) - Cardinality(classes)

\* DELETE /jobs/schedules/{schedule_id}/future-classes
DeleteFuture(s, from_date) ==
    \E doomed \in { FutureOfSchedule(classes, s, from_date) } :
        /\ RowsDeleted + Cardinality(doomed) <= MaxDeleted
        /\ classes' = classes \ doomed
        \* Class.attendance cascades "all, delete-orphan"
        /\ attendances' = { a \in attendances :
                              a.class_id \notin { c.id : c \in doomed } }
        /\ last' = [ NoCall EXCEPT !.op = "delete_future", !.id = s,
                                   !.arg = from_date,
                                   !.count = Cardinality(doomed) ]
        /\ UNCHANGED << enrollments, schedules, nextClassId, nextAttId, today, runs >>

\* POST /jobs/enrollments/{enrollment_id}/cancel-future-classes
CancelFuture(e, from_date) ==
    \E hit \in { FutureOfEnrollment(classes, e, from_date) } :
        /\ classes' = (classes \ hit) \cup
                        { [c EXCEPT !.status = "cancelled"] : c \in hit }
        /\ last' = [ NoCall EXCEPT !.op = "cancel_future", !.id = e,
                                   !.arg = from_date,
                                   !.count = Cardinality(hit) ]
        /\ UNCHANGED << enrollments, schedules, nextClassId, attendances, nextAttId,
                        today, runs >>

(***************************************************************************)
(* Class and enrollment CRUD used around the engine.                       *)
(***************************************************************************)

\* rows entered by hand through class_crud.create (no schedule): a recovery
\* class of enrollment 1 in January and a class of enrollment 2 in December
ManualClasses ==
    { [ id |-> 1, schedule_id |-> NoId, enrollment_id |-> 1,
        teacher_id |-> TeacherId, date |-> ManualDate, time |-> Time1800,
        duration |-> 45, status |-> "scheduled", type |-> "recovery",
        format |-> "individual" ],
      [ id |-> 2, schedule_id |-> NoId, enrollment_id |-> 2,
        teacher_id |-> TeacherId, date |-> EarlyManualDate, time |-> Time1800,
        duration |-> 60, status |-> "scheduled", type |-> "regular",
        format |-> "group" ] }

\* class_crud.update with update_data = {status: new_status}
UpdateClassStatus(class_id, new_status) ==
    /\ \E c \in classes :
          /\ c.id = class_id
          /\ c.date = EditDate
          /\ classes' = (classes \ {c}) \cup { [c EXCEPT !.status = new_status] }
    /\ last' = [ NoCall EXCEPT !.op = "update_class", !.id = class_id ]
    /\ UNCHANGED << enrollments, schedules, nextClassId, attendances, nextAttId, today, runs >>

\* enrollment.suspend
Suspend(e) ==
    /\ e \in DOMAIN enrollments
    /\ enrollments' = [enrollments EXCEPT ![e].status = "suspended"]
    /\ last' = [ NoCall EXCEPT !.op = "suspend", !.id = e ]
    /\ UNCHANGED << schedules, classes, nextClassId, attendances, nextAttId, today, runs >>

\* enrollment.reactivate
Reactivate(e) ==
    /\ e \in DOMAIN enrollments
    /\ enrollments' = [enrollments EXCEPT ![e].status = "active"]
    /\ last' = [ NoCall EXCEPT !.op = "reactivate", !.id = e,
                               !.was = enrollments[e].status ]
    /\ UNCHANGED << schedules, classes, nextClassId, attendances, nextAttId, today, runs >>

\* enrollment.withdraw
Withdraw(e) ==
    /\ e \in DOMAIN enrollments
    /\ enrollments' = [enrollments EXCEPT ![e].status = "withdrawn"]
    /\ last' = [ NoCall EXCEPT !.op = "withdraw", !.id = e ]
    /\ UNCHANGED << schedules, classes, nextClassId, attendances, nextAttId, today, runs >>

\* the endpoint called for any class on file
UpdateAnyClassStatus ==
    \E i \in { c.id : c \in classes }, st \in ClassStatus : UpdateClassStatus(i, st)

(***************************************************************************)
(* Sequential behaviour of the engine and the reconciler.                  *)
(***************************************************************************)
Next ==
    \/ \E e \in EnrollIds \cup {MissingEnrollId}, k \in MonthsAhead :
          GenerateForEnrollment(e, k)
    \/ GenerateMonthly
    \/ \E s \in SchedIds, d \in FromDates : DeleteFuture(s, d)
    \/ \E e \in EnrollIds, d \in FromDates : CancelFuture(e, d)

Spec == Init /\ [][Next]_vars

(***************************************************************************)
(* The engine while enrollments are suspended, reactivated and withdrawn.  *)
(***************************************************************************)
NextStatus ==
    \/ \E e \in EnrollIds \cup {MissingEnrollId}, k \in MonthsAhead :
          GenerateForEnrollment(e, k)
    \/ GenerateMonthly
    \/ \E e \in EnrollIds, d \in FromDates : CancelFuture(e, d)
    \/ \E e \in EnrollIds : Suspend(e)
    \/ \E e \in EnrollIds : Reactivate(e)
    \/ \E e \in EnrollIds : Withdraw(e)

SpecStatus == Init /\ [][NextStatus]_vars

(***************************************************************************)
(* The reconciler among classes of every status and origin.                *)
(***************************************************************************)
NextReconcile ==
    \/ \E e \in EnrollIds : GenerateForEnrollment(e, 1)
    \/ \E s \in SchedIds, d \in FromDates : DeleteFuture(s, d)
    \/ \E e \in EnrollIds, d \in FromDates : CancelFuture(e, d)
    \/ UpdateAnyClassStatus

InitReconcile ==
    /\ enrollments = InitEnrollments
    /\ schedules = InitSchedules
    /\ classes = ManualClasses
    /\ nextClassId = Cardinality(ManualClasses) + 1
    /\ attendances = {}
    /\ nextAttId = 1
    /\ today = MkDate(2025, 12, 10)
    /\ runs = NoRuns
    /\ last = NoCall

SpecReconcile == InitReconcile /\ [][NextReconcile]_vars

(***************************************************************************)
(* The generation window: one enrollment, a weekly slot of any weekday     *)
(* starting on any of WindowFroms, open-ended or bounded, and a second     *)
(* slot on Fridays of December 2025.                                       *)
(***************************************************************************)
WindowSchedules(day, from, until) ==
    (1 :> [ id |-> 1, enrollment_id |-> 1, teacher_id |-> WindowTeacherId,
            day |-> day, time |-> Time1600, duration |-> 45,
            valid_from |-> from, valid_until |-> until, active |-> TRUE ])
    @@
    (2 :> [ id |-> 2, enrollment_id |-> 1, teacher_id |-> WindowTeacherId,
            day |-> "friday", time |-> Time1800, duration |-> 60,
            valid_from |-> MkDate(2025, 12, 15),
            valid_until |-> MkDate(2025, 12, 31), active |-> TRUE ])

InitWindow ==
    /\ enrollments = InitEnrollments
    /\ \E day \in DayOfWeek, from \in WindowFroms :
         \E until \in {NoDate, from + WindowSpan} :
            schedules = WindowSchedules(day, from, until)
    /\ classes = {}
    /\ nextClassId = 1
    /\ attendances = {}
    /\ nextAttId = 1
    /\ today = MkDate(2025, 11, 10)
    /\ runs = NoRuns
    /\ last = NoCall

\* enrollment.update with a new format
UpdateFormat(e, f) ==
    /\ e \in DOMAIN enrollments
    /\ enrollments' = [enrollments EXCEPT ![e].format = f]
    /\ last' = [ NoCall EXCEPT !.op = "update_enrollment", !.id = e ]
    /\ UNCHANGED << schedules, classes, nextClassId, attendances, nextAttId, today, runs >>

NextWindow ==
    \/ \E k \in 0..MaxWindowMonths : GenerateForEnrollment(1, k)
    \/ \E f \in ClassFormat : UpdateFormat(1, f)

SpecWindow == InitWindow /\ [][NextWindow]_vars

(***************************************************************************)
(* Credit ledger (app/crud/attendance.py, app/crud/class_crud.py).         *)
(* A request that ends in an HTTP error commits nothing: the session is    *)
(* closed with whatever it held.                                           *)
(***************************************************************************)

\* variant: a license can always be taken back
CanRevokeLicense_Always(credits) == TRUE

\* attendance.update: "if enrollment.credits > 0"
CanRevokeLicense(credits) == credits > 0

\* variant: a recovery class needs no credit
LacksCredit_Never(credits) == FALSE

\* class_crud.create_recovery: "if enrollment.credits < 1"
LacksCredit(credits) == credits < 1

Rejected(op, id, to, msg) ==
    /\ last' = [ NoCall EXCEPT !.op = op, !.id = id, !.to = to,
                               !.ok = FALSE, !.error = msg ]
    /\ UNCHANGED << enrollments, schedules, classes, nextClassId, attendances,
                    nextAttId, today, runs >>

\* POST /attendances
\* variant: the class is never found to be marked already
AlreadyMarked_Never(atts, class_id) == FALSE

\* get_by_class: the attendance of the class, if there is one
AlreadyMarked(atts, class_id) == \E a \in atts : a.class_id = class_id

MarkAttendance(class_id, st) ==
    IF ~ \E c \in classes : c.id = class_id
    THEN Rejected("mark_attendance", class_id, st, "Clase no encontrada")
    ELSE IF AlreadyMarked(attendances, class_id)
    THEN Rejected("mark_attendance", class_id, st, "Ya existe asistencia")
    ELSE LET c == CHOOSE x \in classes : x.id = class_id
         IN  /\ attendances' = attendances \cup
                   { [ id |-> nextAttId, class_id |-> class_id,
                       enrollment_id |-> c.enrollment_id, status |-> st ] }
             /\ nextAttId' = nextAttId + 1
             /\ enrollments' =
                   IF st = "license" /\ c.enrollment_id \in DOMAIN enrollments
                   THEN [enrollments EXCEPT ![c.enrollment_id].credits = @ + 1]
                   ELSE enrollments
             /\ last' = [ NoCall EXCEPT !.op = "mark_attendance", !.id = class_id,
                                        !.to = st ]
             /\ UNCHANGED << schedules, classes, nextClassId, today, runs >>

\* update_data without a status (notes only)
NoStatus == ""

\* variant: any change to a status other than license takes a credit back
LeavesLicense_FromAny(old_status, new_status) == new_status # "license"

\* attendance.update, "Caso 1": the status changes to license
EntersLicense(old_status, new_status) ==
    old_status # "license" /\ new_status = "license"

\* attendance.update, "Caso 2": the status changes away from license
LeavesLicense(old_status, new_status) ==
    old_status = "license" /\ new_status # "license"

\* PATCH /attendances/{attendance_id}; update_data holds the status
\* new_status, or only notes when new_status = NoStatus
UpdateAttendance(attendance_id, new_status) ==
    IF ~ \E a \in attendances : a.id = attendance_id
    THEN Rejected("update_attendance", attendance_id, new_status,
                  "Asistencia no encontrada")
    ELSE LET a == CHOOSE x \in attendances : x.id = attendance_id
             e == a.enrollment_id
             old_status == a.status
             known == /\ new_status # NoStatus
                      /\ old_status # new_status
                      /\ e \in DOMAIN enrollments
             grants == known /\ EntersLicense(old_status, new_status)
             revokes == known /\ ~grants /\ LeavesLicense(old_status, new_status)
         IN  IF revokes /\ ~CanRevokeLicense(enrollments[e].credits)
             THEN Rejected("update_attendance", attendance_id, new_status,
                           "No se puede cambiar de 'license'")
             ELSE /\ enrollments' =
                        IF grants THEN [enrollments EXCEPT ![e].credits = @ + 1]
                        ELSE IF revokes THEN [enrollments EXCEPT ![e].credits = @ - 1]
                        ELSE enrollments
                  /\ attendances' =
                        IF new_status = NoStatus THEN attendances
                        ELSE (attendances \ {a}) \cup
                               { [a EXCEPT !.status = new_status] }
                  /\ last' = [ NoCall EXCEPT !.op = "update_attendance",
                                             !.id = attendance_id,
                                             !.was = old_status, !.to = new_status ]
                  /\ UNCHANGED << schedules, classes, nextClassId, nextAttId, today, runs >>

\* POST /classes/recovery; type is the type named in the request body
CreateRecovery(e, type) ==
    /\ nextClassId <= LedgerClasses + MaxRecoveries
    /\ IF e \notin DOMAIN enrollments
       THEN Rejected("create_recovery", e, type, "Enrollment no existe")
       ELSE IF LacksCredit(enrollments[e].credits)
       THEN Rejected("create_recovery", e, type, "No hay creditos disponibles")
       ELSE /\ classes' = classes \cup
                  \* class_dict['type'] = ClassType.RECOVERY
                  { [ id |-> nextClassId, schedule_id |-> NoId, enrollment_id |-> e,
                      teacher_id |-> TeacherId, date |-> RecoveryDate,
                      time |-> Time1800, duration |-> 45, status |-> "scheduled",
                      type |-> "recovery", format |-> "individual" ] }
            /\ nextClassId' = nextClassId + 1
            /\ enrollments' = [enrollments EXCEPT ![e].credits = @ - 1]
            /\ last' = [ NoCall EXCEPT !.op = "create_recovery", !.id = e,
                                       !.to = type ]
            /\ UNCHANGED << schedules, attendances, nextAttId, today, runs >>

\* variant: the type of the class is not looked at
DeleteRecoveryError_AnyType(rows, atts, enr, class_id) ==
    IF ~ \E c \in rows : c.id = class_id THEN "Clase no existe"
    ELSE IF \E a \in atts : a.class_id = class_id
    THEN "No se puede eliminar una clase con asistencia marcada"
    ELSE ""

\* the checks of delete_recovery, in order; "" when the class may be deleted
DeleteRecoveryError(rows, atts, enr, class_id) ==
    IF ~ \E c \in rows : c.id = class_id THEN "Clase no existe"
    ELSE LET c == CHOOSE x \in rows : x.id = class_id
         IN  IF c.type # "recovery"
             THEN "Solo se pueden eliminar clases de recuperacion"
             ELSE IF \E a \in atts : a.class_id = class_id
             THEN "No se puede eliminar una clase con asistencia marcada"
             ELSE IF c.enrollment_id \notin DOMAIN enr
             THEN "Enrollment no existe"
             ELSE ""

\* DELETE /classes/recovery/{class_id}
DeleteRecovery(class_id) ==
    LET err == DeleteRecoveryError(classes, attendances, enrollments, class_id)
    IN  IF err # ""
        THEN Rejected("delete_recovery", class_id, "", err)
        ELSE LET c == CHOOSE x \in classes : x.id = class_id
             IN  /\ enrollments' =
                       [enrollments EXCEPT ![c.enrollment_id].credits = @ + 1]
                 /\ classes' = classes \ {c}
                 /\ last' = [ NoCall EXCEPT !.op = "delete_recovery",
                                            !.id = class_id ]
                 /\ UNCHANGED << schedules, nextClassId, attendances, nextAttId,
                                 today, runs >>

\* the regular classes of enrollment 1 on file: Saturdays of December 2025
InitLedgerClasses ==
    { [ id |-> i, schedule_id |-> 3, enrollment_id |-> 1, teacher_id |-> TeacherId,
        date |-> MkDate(2025, 12, 6) + 7 * (i - 1), time |-> Time1600,
        duration |-> 45, status |-> "scheduled", type |-> "regular",
        format |-> "individual" ] : i \in 1..LedgerClasses }

InitCredit ==
    /\ enrollments = InitEnrollments
    /\ schedules = InitSchedules
    /\ classes = InitLedgerClasses
    /\ nextClassId = LedgerClasses + 1
    /\ attendances = {}
    /\ nextAttId = 1
    /\ today = MkDate(2025, 12, 10)
    /\ runs = NoRuns
    /\ last = NoCall

NextCredit ==
    \/ \E i \in 1..(LedgerClasses + MaxRecoveries), st \in AttendanceStatus :
          MarkAttendance(i, st)
    \/ \E i \in 1..(LedgerClasses + MaxRecoveries),
          st \in AttendanceStatus \cup {NoStatus} : UpdateAttendance(i, st)
    \/ \E e \in {1, MissingEnrollId}, t \in ClassType : CreateRecovery(e, t)
    \/ \E i \in 1..(LedgerClasses + MaxRecoveries) : DeleteRecovery(i)

SpecCredit == InitCredit /\ [][NextCredit]_vars

(***************************************************************************)
(* Two requests running the generator at the same time.  Each request has  *)
(* a session of its own; every awaited statement is a point where the      *)
(* other request may run.  A SELECT sees the committed rows only.          *)
(***************************************************************************)
RECURSIVE DatesFrom(_, _)
\* current_date, current_date + 7, ... while current_date <= end_date
DatesFrom(current_date, end_date) ==
    IF current_date > end_date THEN << >>
    ELSE << current_date >> \o DatesFrom(current_date + 7, end_date)

\* the iterations of the weekly loop of one schedule, as << schedule id, date >>
Iterations(schedule, months_ahead) ==
    LET first == FindFirst(schedule.valid_from, schedule.valid_from,
                           DAY_MAP[schedule.day])
        dates == IF first = NoDate THEN << >>
                 ELSE DatesFrom(first, EndDate(schedule, months_ahead))
    IN  [ j \in 1..Len(dates) |-> << schedule.id, dates[j] >> ]

RECURSIVE RunPlan(_, _)
\* the iterations of "for schedule in schedules", in order
RunPlan(todo, months_ahead) ==
    IF todo = << >> THEN << >>
    ELSE Iterations(schedules[Head(todo)], months_ahead)
         \o RunPlan(Tail(todo), months_ahead)

\* the request arrives: the enrollment and its active schedules are loaded
RunBegin(r, e, k) ==
    /\ runs[r].pc # "loop"
    /\ LET err == EnrollmentError(enrollments, e)
           ids == { i \in DOMAIN schedules :
                      schedules[i].enrollment_id = e /\ schedules[i].active }
       IN  runs' = [runs EXCEPT ![r] =
                IF err # ""
                THEN [IdleRun EXCEPT !.pc = "done", !.enrollment_id = e, !.error = err]
                ELSE IF ids = {}
                THEN [IdleRun EXCEPT !.pc = "done", !.enrollment_id = e,
                                     !.error = "No hay horarios definidos"]
                ELSE [IdleRun EXCEPT !.pc = "loop", !.enrollment_id = e,
                                     !.months_ahead = k,
                                     !.todo = RunPlan(SetToSeq(ids), k)]]
    /\ UNCHANGED << enrollments, schedules, classes, nextClassId, attendances,
                    nextAttId, today, last >>

\* one iteration of the weekly loop: holiday test, SELECT, db.add
RunStep(r) ==
    /\ runs[r].pc = "loop"
    /\ runs[r].todo # << >>
    /\ LET schedule == schedules[Head(runs[r].todo)[1]]
           current_date == Head(runs[r].todo)[2]
           e == runs[r].enrollment_id
           found == ExistingClasses(classes, schedule, current_date)
       IN  IF is_holiday(current_date)
           THEN /\ runs' = [runs EXCEPT ![r].todo = Tail(@), ![r].skipped = @ + 1]
                /\ UNCHANGED last
           ELSE IF Cardinality(found) > 1
           THEN /\ runs' = [runs EXCEPT ![r].pc = "failed", ![r].todo = << >>,
                                        ![r].pending = << >>]
                /\ last' = [ NoCall EXCEPT !.op = "generate", !.id = e,
                                           !.arg = runs[r].months_ahead,
                                           !.ok = FALSE, !.raised = TRUE ]
           ELSE IF found # {}
           THEN /\ runs' = [runs EXCEPT ![r].todo = Tail(@), ![r].skipped = @ + 1]
                /\ UNCHANGED last
           ELSE /\ runs' = [runs EXCEPT
                              ![r].todo = Tail(@),
                              ![r].created = @ + 1,
                              ![r].pending = Append(@, NewClass(schedule, e,
                                                                enrollments[e],
                                                                current_date))]
                /\ UNCHANGED last
    /\ UNCHANGED << enrollments, schedules, classes, nextClassId, attendances,
                    nextAttId, today >>

\* await db.commit(): the pending rows are inserted; the table has no
\* unique key on (schedule_id, date, time), so none of them is refused
RunCommit(r) ==
    /\ runs[r].pc = "loop"
    /\ runs[r].todo = << >>
    /\ \E db \in { Flush(DB, runs[r].pending) } :
          /\ classes' = db.classes
          /\ nextClassId' = db.nextId
    /\ runs' = [runs EXCEPT ![r].pc = "done", ![r].pending = << >>]
    /\ last' = [ NoCall EXCEPT !.op = "generate", !.id = runs[r].enrollment_id,
                               !.arg = runs[r].months_ahead,
                               !.created = runs[r].created,
                               !.skipped = runs[r].skipped ]
    /\ UNCHANGED << enrollments, schedules, attendances, nextAttId, today >>

NextRace ==
    \/ \E r \in RunIds, e \in EnrollIds : RunBegin(r, e, 1)
    \/ \E r \in RunIds : RunStep(r)
    \/ \E r \in RunIds : RunCommit(r)

SpecRace == Init /\ [][NextRace]_vars

(***************************************************************************)
(* The monthly job on its cron trigger (app/core/scheduler.py): it runs    *)
(* on the 10th of every month.                                             *)
(***************************************************************************)
MonthlySchedules(day, from) ==
    (1 :> [ id |-> 1, enrollment_id |-> 1, teacher_id |-> TeacherId,
            day |-> day, time |-> Time1600, duration |-> 45,
            valid_from |-> from, valid_until |-> NoDate, active |-> TRUE ])

InitMonthly ==
    /\ enrollments = InitEnrollments
    /\ \E day \in DayOfWeek, from \in MonthlyFroms :
          schedules = MonthlySchedules(day, from)
    /\ classes = {}
    /\ nextClassId = 1
    /\ attendances = {}
    /\ nextAttId = 1
    /\ today = FirstJobDay
    /\ runs = NoRuns
    /\ last = NoCall

\* months from the first job to the month of date n
MonthsSinceFirstJob(n) ==
    (YearOf(n) * 12 + MonthOf(n)) - (YearOf(FirstJobDay) * 12 + MonthOf(FirstJobDay))

\* CronTrigger(day=10, hour=2): the job of this month
MonthlyJob ==
    /\ last.op # "monthly"
    /\ GenerateMonthly

\* the calendar moves on to the 10th of the next month
NextTrigger ==
    /\ last.op = "monthly"
    /\ MonthsSinceFirstJob(today) + 1 < MaxMonthlyRuns
    /\ today' = IF MonthOf(today) = 12
                THEN MkDate(YearOf(today) + 1, 1, 10)
                ELSE MkDate(YearOf(today), MonthOf(today) + 1, 10)
    /\ last' = [ NoCall EXCEPT !.op = "trigger" ]
    /\ UNCHANGED << enrollments, schedules, classes, nextClassId, attendances,
                    nextAttId, runs >>

NextMonthly ==
    \/ MonthlyJob
    \/ NextTrigger

SpecMonthly == InitMonthly /\ [][NextMonthly]_vars

(***************************************************************************)
(* The monthly job over a table that concurrent requests have written to.  *)
(***************************************************************************)
NextFault ==
    \/ \E r \in RunIds, e \in EnrollIds : RunBegin(r, e, 1)
    \/ \E r \in RunIds : RunStep(r)
    \/ \E r \in RunIds : RunCommit(r)
    \/ GenerateMonthly

SpecFault == Init /\ [][NextFault]_vars

(***************************************************************************)
(* Two POST /classes/recovery requests at the same time.  Each session     *)
(* loads the enrollment, tests and decrements the credits it loaded, and   *)
(* its commit writes that value back (UPDATE enrollments SET credits = v). *)
(***************************************************************************)

\* a session with no recovery request in flight
IdleRequest == [ pc |-> "idle", enrollment_id |-> NoId, credits |-> 0 ]

InitCreditRace ==
    /\ enrollments = InitEnrollments
    /\ schedules = InitSchedules
    /\ classes = InitLedgerClasses
    /\ nextClassId = LedgerClasses + 1
    /\ attendances = {}
    /\ nextAttId = 1
    /\ today = MkDate(2025, 12, 10)
    /\ runs = [ r \in RunIds |-> IdleRequest ]
    /\ last = NoCall

\* create_recovery up to its commit: SELECT the enrollment, test its credits
RecoveryBegin(r, e) ==
    /\ runs[r].pc # "checked"
    /\ nextClassId + Cardinality({ x \in RunIds : runs[x].pc = "checked" })
         <= LedgerClasses + MaxRecoveries
    /\ IF e \notin DOMAIN enrollments \/ LacksCredit(enrollments[e].credits)
       THEN /\ runs' = [runs EXCEPT ![r] = [IdleRequest EXCEPT !.pc = "refused",
                                                               !.enrollment_id = e]]
            /\ last' = [ NoCall EXCEPT !.op = "create_recovery", !.id = e,
                                       !.ok = FALSE,
                                       !.error = "No hay creditos disponibles" ]
       ELSE /\ runs' = [runs EXCEPT ![r] = [ pc |-> "checked", enrollment_id |-> e,
                                             credits |-> enrollments[e].credits ]]
            /\ UNCHANGED last
    /\ UNCHANGED << enrollments, schedules, classes, nextClassId, attendances,
                    nextAttId, today >>

\* enrollment.credits -= 1; db.add(class_obj); await db.commit()
RecoveryCommit(r) ==
    /\ runs[r].pc = "checked"
    /\ classes' = classes \cup
          { [ id |-> nextClassId, schedule_id |-> NoId,
              enrollment_id |-> runs[r].enrollment_id,
              teacher_id |-> TeacherId, date |-> RecoveryDate,
              time |-> Time1800, duration |-> 45, status |-> "scheduled",
              type |-> "recovery", format |-> "individual" ] }
    /\ nextClassId' = nextClassId + 1
    /\ enrollments' = [enrollments EXCEPT
                         ![runs[r].enrollment_id].credits = runs[r].credits - 1]
    /\ runs' = [runs EXCEPT ![r].pc = "done"]
    /\ last' = [ NoCall EXCEPT !.op = "create_recovery",
                               !.id = runs[r].enrollment_id ]
    /\ UNCHANGED << schedules, attendances, nextAttId, today >>

NextCreditRace ==
    \/ \E i \in 1..(LedgerClasses + MaxRecoveries), st \in AttendanceStatus :
          MarkAttendance(i, st)
    \/ \E r \in RunIds : RecoveryBegin(r, 1)
    \/ \E r \in RunIds : RecoveryCommit(r)

SpecCreditRace == InitCreditRace /\ [][NextCreditRace]_vars

(***************************************************************************)
(* Schedule conflicts (crud/schedule.py).  A time of day is a number of    *)
(* minutes after midnight; datetime.time() drops the date, so an end time  *)
(* is taken modulo one day.                                                *)
(***************************************************************************)

\* (datetime.combine(today, start) + timedelta(minutes=duration)).time()
EndTime(start, duration) == (start + duration) % (24 * 60)

Overlaps_StartsInside(new_start, new_end, existing_start, existing_end) ==
    existing_start <= new_start /\ new_start < existing_end

\* time_obj < existing_end and end_time > existing_start
Overlaps(new_start, new_end, existing_start, existing_end) ==
    new_start < existing_end /\ new_end > existing_start

\* the format read from the enrollment, "" when no enrollment is found
FormatOf(enr, enrollment_id) ==
    IF enrollment_id # NoId /\ enrollment_id \in DOMAIN enr
    THEN enr[enrollment_id].format
    ELSE ""

\* the rows of the query: same teacher and day, active, not expired
ExistingSchedules(sch, day_today, teacher_id, day, exclude_schedule_id) ==
    { i \in DOMAIN sch :
        /\ sch[i].teacher_id = teacher_id
        /\ sch[i].day = day
        /\ sch[i].active
        /\ (sch[i].valid_until = NoDate \/ sch[i].valid_until >= day_today)
        /\ (exclude_schedule_id # NoId => i # exclude_schedule_id) }

\* both group-format with the same start and duration: the slot is shared
SharesGroupSlot(enr, existing, time, duration, current_format) ==
    /\ current_format = "group"
    /\ existing.enrollment_id \in DOMAIN enr
    /\ enr[existing.enrollment_id].format = "group"
    /\ time = existing.time
    /\ duration = existing.duration

\* The ids of the rows at which the loop returns.  The query has no ORDER BY,
\* so any of them may be the one returned; the empty set stands for None.
check_schedule_conflict(enr, sch, day_today, teacher_id, day, time, duration, exclude_schedule_id, enrollment_id) ==
    { i \in ExistingSchedules(sch, day_today, teacher_id, day, exclude_schedule_id) :
        /\ Overlaps(time, EndTime(time, duration),
                    sch[i].time, EndTime(sch[i].time, sch[i].duration))
        /\ ~SharesGroupSlot(enr, sch[i], time, duration,
                            FormatOf(enr, enrollment_id)) }

MaxSlotLen == 3

\* start times and durations of the slots tried
SlotTimes == { 16 * 60, 16 * 60 + 30, 23 * 60, 23 * 60 + 30 }
SlotDurations == { 30 * k : k \in 1..MaxSlotLen }

ConflictToday == MkDate(2025, 12, 10)

\* schedule 1: a Monday slot of the teacher, of either enrollment
\* schedule 2: another row that the query must keep or drop
ConflictSchedules(t1, d1, e1, a1, kind2, t2) ==
    [ i \in {1, 2} |->
        IF i = 1
        THEN [ id |-> 1, enrollment_id |-> e1, teacher_id |-> TeacherId,
               day |-> "monday", time |-> t1, duration |-> d1,
               valid_from |-> MkDate(2025, 12, 1), valid_until |-> NoDate,
               active |-> a1 ]
        ELSE [ id |-> 2, enrollment_id |-> 2,
               teacher_id |-> IF kind2 = "teacher" THEN WindowTeacherId
                                                   ELSE TeacherId,
               day |-> IF kind2 = "day" THEN "tuesday" ELSE "monday",
               time |-> t2, duration |-> 60,
               valid_from |-> MkDate(2025, 12, 1),
               valid_until |-> CASE kind2 = "expired" -> ConflictToday - 1
                                 [] kind2 = "last_day" -> ConflictToday
                                 [] OTHER -> NoDate,
               active |-> TRUE ] ]

InitConflict ==
    /\ enrollments = InitEnrollments
    /\ \E t1 \in SlotTimes, d1 \in SlotDurations, e1 \in EnrollIds,
          a1 \in BOOLEAN,
          kind2 \in {"open", "teacher", "day", "expired", "last_day"},
          t2 \in {16 * 60, 23 * 60} :
          schedules = ConflictSchedules(t1, d1, e1, a1, kind2, t2)
    /\ classes = {}
    /\ nextClassId = 1
    /\ attendances = {}
    /\ nextAttId = 1
    /\ today = ConflictToday
    /\ runs = NoRuns
    /\ last = NoCall

\* one call of check_schedule_conflict for a candidate slot
CheckConflict(time, duration, exclude_schedule_id, enrollment_id) ==
    \E found \in { check_schedule_conflict(enrollments, schedules, today,
                                           TeacherId, "monday", time, duration,
                                           exclude_schedule_id, enrollment_id) } :
      \E hit \in IF found = {} THEN {NoId} ELSE found :
        /\ last' = [ NoCall EXCEPT
                       !.op = "check_conflict", !.id = hit,
                       !.ok = (hit = NoId),
                       !.arg = [ teacher_id |-> TeacherId, day |-> "monday",
                                 time |-> time, duration |-> duration,
                                 exclude_schedule_id |-> exclude_schedule_id,
                                 enrollment_id |-> enrollment_id ] ]
        /\ UNCHANGED << enrollments, schedules, classes, nextClassId,
                        attendances, nextAttId, today, runs >>

NextConflict ==
    \E time \in SlotTimes, duration \in SlotDurations,
       exclude_schedule_id \in {NoId, 1},
       enrollment_id \in {NoId} \cup EnrollIds :
       CheckConflict(time, duration, exclude_schedule_id, enrollment_id)

SpecConflict == InitConflict /\ [][NextConflict]_vars

(***************************************************************************)
(* Creating and editing schedules (POST and PATCH /schedules).             *)
(***************************************************************************)

MaxSchedules == 2

\* the first day a new schedule is valid
NewValidFrom == MkDate(2025, 12, 22)

InitBooking ==
    /\ enrollments = InitEnrollments
    /\ schedules = << >>
    /\ classes = {}
    /\ nextClassId = 1
    /\ attendances = {}
    /\ nextAttId = 1
    /\ today = ConflictToday
    /\ runs = NoRuns
    /\ last = NoCall

\* schedule.create: the conflict test, the INSERT, then the classes of the
\* enrollment for this month and the next (a failure there is only logged)
CreateScheduleUpTo(rows, e, day, time, duration, valid_from) ==
    /\ Cardinality(DOMAIN schedules) < rows
    /\ e \in DOMAIN enrollments
    /\ enrollments[e].teacher_id = TeacherId
    /\ \E id \in { Cardinality(DOMAIN schedules) + 1 } :
         IF check_schedule_conflict(enrollments, schedules, today, TeacherId,
                                    day, time, duration, NoId, e) # {}
         THEN Rejected("create_schedule", id, "", "Conflicto de horario")
         ELSE \E sch \in { [ i \in DOMAIN schedules \cup {id} |->
                              IF i = id
                              THEN [ id |-> id, enrollment_id |-> e,
                                     teacher_id |-> TeacherId, day |-> day,
                                     time |-> time, duration |-> duration,
                                     valid_from |-> valid_from,
                                     valid_until |-> NoDate, active |-> TRUE ]
                              ELSE schedules[i] ] } :
              \E g \in { generate_classes_for_enrollment(DB, enrollments, sch, e, 1) } :
                /\ schedules' = sch
                /\ classes' = g.db.classes
                /\ nextClassId' = g.db.nextId
                /\ last' = [ NoCall EXCEPT !.op = "create_schedule", !.id = id ]
                /\ UNCHANGED << enrollments, attendances, nextAttId, today, runs >>

\* POST /schedules for a Monday slot
CreateSchedule(e, time, duration) ==
    CreateScheduleUpTo(MaxSchedules, e, "monday", time, duration, NewValidFrom)

\* the row after setattr of every field of update_data
WithFields(row, update_data) ==
    [ f \in DOMAIN row |-> IF f \in DOMAIN update_data THEN update_data[f]
                                                       ELSE row[f] ]

\* schedule.update: the conflict test runs only when day, time or duration
\* is among the fields sent
UpdateSchedule(schedule_id, update_data) ==
    /\ schedule_id \in DOMAIN schedules
    /\ schedules[schedule_id].teacher_id = TeacherId
    /\ \E new \in { WithFields(schedules[schedule_id], update_data) } :
         IF /\ DOMAIN update_data \cap {"day", "time", "duration"} # {}
            /\ check_schedule_conflict(enrollments, schedules, today,
                                       schedules[schedule_id].teacher_id,
                                       new.day, new.time, new.duration,
                                       schedule_id,
                                       schedules[schedule_id].enrollment_id) # {}
         THEN Rejected("update_schedule", schedule_id, "", "Conflicto de horario")
         ELSE /\ schedules' = [schedules EXCEPT ![schedule_id] = new]
              /\ last' = [ NoCall EXCEPT !.op = "update_schedule",
                                         !.id = schedule_id ]
              /\ UNCHANGED << enrollments, classes, nextClassId, attendances,
                              nextAttId, today, runs >>

\* PATCH with one field sent
UpdateField(update_data) ==
    \E schedule_id \in 1..MaxSchedules : UpdateSchedule(schedule_id, update_data)

NextBooking ==
    \/ \E e \in EnrollIds, time \in {16 * 60, 16 * 60 + 30} :
          CreateSchedule(e, time, 60)
    \/ \E b \in BOOLEAN : UpdateField([ active |-> b ])
    \/ \E d \in {NoDate, ConflictToday - 1} : UpdateField([ valid_until |-> d ])
    \/ \E d \in {"monday", "tuesday"} : UpdateField([ day |-> d ])
    \/ \E t \in {16 * 60, 16 * 60 + 30} : UpdateField([ time |-> t ])
    \/ \E n \in {30, 60} : UpdateField([ duration |-> n ])

SpecBooking == InitBooking /\ [][NextBooking]_vars

(***************************************************************************)
(* Slot availability (GET /schedules/validate-slot).  The time arrives as  *)
(* text, "HH:MM" or "HH:MM:SS", written here << h, m >> or << h, m, s >>.  *)
(***************************************************************************)

MAX_GROUP_CLASS_SIZE == 4

MaxSlotRows == 5

\* "15:00" gets ":00" appended before strptime("%H:%M:%S")
ParseTime(text) == IF Len(text) = 2 THEN text \o << 0 >> ELSE text

\* the rows of the query: this teacher, day and start time, active, not
\* expired, joined to an active enrollment
SlotRows(enr, sch, day_today, teacher_id, day, time_obj) ==
    { i \in DOMAIN sch :
        /\ sch[i].enrollment_id \in DOMAIN enr
        /\ sch[i].teacher_id = teacher_id
        /\ sch[i].day = day
        \* Schedule.time == time_obj, for a stored time of whole minutes
        /\ time_obj[3] = 0
        /\ sch[i].time = time_obj[1] * 60 + time_obj[2]
        /\ sch[i].active
        /\ enr[sch[i].enrollment_id].status = "active"
        /\ (sch[i].valid_until = NoDate \/ sch[i].valid_until >= day_today) }

MaxCapacity(format) == IF format = "group" THEN MAX_GROUP_CLASS_SIZE ELSE 1

SlotFull_Over(current_count, max_capacity) == current_count > max_capacity

\* if current_count >= max_capacity
SlotFull(current_count, max_capacity) == current_count >= max_capacity

\* the dict returned for the rows found; first is schedules[0] (the query has
\* no ORDER BY), NoId when there are no rows
validate_slot_availability(enr, sch, rows, first, format) ==
    IF rows = {}
    THEN [ available |-> TRUE, current_students |-> 0,
           max_students |-> MaxCapacity(format), existing_format |-> "",
           conflict |-> FALSE ]
    ELSE LET existing_format == enr[sch[first].enrollment_id].format
             current_count == Cardinality(rows)
         IN  IF existing_format # format
             THEN [ available |-> FALSE, current_students |-> current_count,
                    max_students |-> MaxCapacity(existing_format),
                    existing_format |-> existing_format, conflict |-> TRUE ]
             ELSE IF existing_format = "individual"
             THEN [ available |-> FALSE, current_students |-> current_count,
                    max_students |-> 1, existing_format |-> existing_format,
                    conflict |-> FALSE ]
             ELSE [ available |-> ~SlotFull(current_count, MAX_GROUP_CLASS_SIZE),
                    current_students |-> current_count,
                    max_students |-> MAX_GROUP_CLASS_SIZE,
                    existing_format |-> existing_format, conflict |-> FALSE ]

\* what a schedule of the teacher's Monday can be with respect to 16:00
SlotKinds ==
    << "group", "individual", "suspended", "inactive", "expired", "other_time" >>

SlotEnrollment(kind) ==
    [ status |-> IF kind = "suspended" THEN "suspended" ELSE "active",
      credits |-> 0, teacher_id |-> TeacherId,
      format |-> IF kind = "individual" THEN "individual" ELSE "group" ]

SlotSchedule(i, kind) ==
    [ id |-> i, enrollment_id |-> i, teacher_id |-> TeacherId,
      day |-> "monday",
      time |-> IF kind = "other_time" THEN 16 * 60 + 30 ELSE 16 * 60,
      duration |-> 60, valid_from |-> MkDate(2025, 12, 1),
      valid_until |-> IF kind = "expired" THEN ConflictToday - 1 ELSE NoDate,
      active |-> kind # "inactive" ]

InitSlot ==
    /\ \E n \in 0..MaxSlotRows : \E k \in [ 1..n -> 1..Len(SlotKinds) ] :
          /\ \A i \in 1..n : i < n => k[i] <= k[i + 1]
          /\ enrollments = [ i \in 1..n |-> SlotEnrollment(SlotKinds[k[i]]) ]
          /\ schedules = [ i \in 1..n |-> SlotSchedule(i, SlotKinds[k[i]]) ]
    /\ classes = {}
    /\ nextClassId = 1
    /\ attendances = {}
    /\ nextAttId = 1
    /\ today = ConflictToday
    /\ runs = NoRuns
    /\ last = NoCall

ValidateSlot(text, format) ==
    \E rows \in { SlotRows(enrollments, schedules, today, TeacherId, "monday",
                           ParseTime(text)) } :
      \E first \in IF rows = {} THEN {NoId} ELSE rows :
        /\ last' = [ NoCall EXCEPT
                       !.op = "validate_slot", !.to = format,
                       !.arg = [ time |-> text,
                                 result |-> validate_slot_availability(
                                     enrollments, schedules, rows, first, format) ] ]
        /\ UNCHANGED << enrollments, schedules, classes, nextClassId,
                        attendances, nextAttId, today, runs >>

NextSlot ==
    \* the texts sent as time: "16:00", "16:00:00", "16:00:30", "16:30"
    \E text \in { << 16, 0 >>, << 16, 0, 0 >>, << 16, 0, 30 >>, << 16, 30 >> },
       format \in ClassFormat : ValidateSlot(text, format)

SpecSlot == InitSlot /\ [][NextSlot]_vars

(***************************************************************************)
(* The status of an enrollment under its four writers: suspend,            *)
(* reactivate, withdraw and PATCH /enrollments/{id}.                       *)
(***************************************************************************)

\* enrollment.update: setattr of every field sent, status and format included
UpdateEnrollment(e, update_data) ==
    /\ e \in DOMAIN enrollments
    /\ enrollments[e].teacher_id = TeacherId
    /\ enrollments' = [enrollments EXCEPT ![e] = WithFields(@, update_data)]
    /\ last' = [ NoCall EXCEPT !.op = "update_enrollment", !.id = e,
                               !.was = enrollments[e].status,
                               !.to = enrollments'[e].status ]
    /\ UNCHANGED << schedules, classes, nextClassId, attendances, nextAttId,
                    today, runs >>

NextLifecycle ==
    \/ \E e \in EnrollIds : Suspend(e)
    \/ \E e \in EnrollIds : Reactivate(e)
    \/ \E e \in EnrollIds : Withdraw(e)
    \/ \E e \in EnrollIds, st \in EnrollmentStatus :
          UpdateEnrollment(e, [ status |-> st ])
    \/ \E e \in EnrollIds, f \in ClassFormat :
          UpdateEnrollment(e, [ format |-> f ])

SpecLifecycle == Init /\ [][NextLifecycle]_vars

(***************************************************************************)
(* Attendance marked on generated classes, then the reconciler.            *)
(***************************************************************************)

MaxMarked == 1

NextMarked ==
    \/ \E e \in EnrollIds : GenerateForEnrollment(e, 1)
    \/ \E i \in 1..MaxMarked, st \in AttendanceStatus : MarkAttendance(i, st)
    \/ \E s \in SchedIds, d \in FromDates : DeleteFuture(s, d)
    \/ \E e \in EnrollIds, d \in FromDates : CancelFuture(e, d)

SpecMarked == Init /\ [][NextMarked]_vars

(***************************************************************************)
(* A schedule swap: the client closes the old schedule on a date, deletes  *)
(* its future classes from that date and opens the new schedule there.     *)
(***************************************************************************)

\* the dates a swap takes effect: a Thursday and a Saturday of January 2026
SwapDates == { MkDate(2026, 1, 8), MkDate(2026, 1, 10) }

InitSwap ==
    /\ enrollments = InitEnrollments
    /\ schedules = [ i \in {1} |-> InitSchedules[1] ]
    /\ classes = {}
    /\ nextClassId = 1
    /\ attendances = {}
    /\ nextAttId = 1
    /\ today = MkDate(2025, 12, 10)
    /\ runs = NoRuns
    /\ last = NoCall

\* the teacher completes a class
CompleteClass ==
    \E i \in { c.id : c \in classes } : UpdateClassStatus(i, "completed")

NextSwap ==
    \/ GenerateForEnrollment(1, 1)
    \/ CompleteClass
    \/ \E d \in SwapDates : UpdateSchedule(1, [ valid_until |-> d ])
    \/ \E d \in SwapDates : DeleteFuture(1, d)
    \/ \E day \in {"thursday", "monday"}, time \in {Time1600, Time1800},
          d \in SwapDates :
            CreateScheduleUpTo(MaxSchedules, 1, day, time, 45, d)

SpecSwap == InitSwap /\ [][NextSwap]_vars

(***************************************************************************)
(* Deleting a schedule (DELETE /schedules/{id}).                           *)
(***************************************************************************)

\* variant: the classes of the schedule are deleted with it
Orphaned_Cascade(rows, schedule_id) ==
    { c \in rows : c.schedule_id # schedule_id }

\* Schedule.classes has no delete cascade and Class.schedule_id is
\* ON DELETE SET NULL: the classes of the schedule lose their schedule_id
Orphaned(rows, schedule_id) ==
    { [ c EXCEPT !.schedule_id = IF @ = schedule_id THEN NoId ELSE @ ] :
        c \in rows }

\* schedule.delete
DeleteSchedule(schedule_id) ==
    IF schedule_id \notin DOMAIN schedules
    THEN Rejected("delete_schedule", schedule_id, "", "Horario no encontrado")
    ELSE /\ schedules' = [ i \in DOMAIN schedules \ {schedule_id} |-> schedules[i] ]
         /\ classes' = Orphaned(classes, schedule_id)
         /\ last' = [ NoCall EXCEPT !.op = "delete_schedule", !.id = schedule_id ]
         /\ UNCHANGED << enrollments, nextClassId, attendances, nextAttId,
                         today, runs >>

NextRemove ==
    \/ \E e \in EnrollIds : GenerateForEnrollment(e, 1)
    \/ \E e \in EnrollIds, d \in FromDates : CancelFuture(e, d)
    \/ UpdateAnyClassStatus
    \/ \E s \in SchedIds : DeleteSchedule(s)

SpecRemove == Init /\ [][NextRemove]_vars

(***************************************************************************)
(* _generate_classes_for_schedule one loop iteration at a time: the search *)
(* for the first matching weekday, then the weekly walk up to end_date.    *)
(***************************************************************************)

\* the session that walks; the other one stays idle
Walker == 1

IdleWalk ==
    [ pc |-> "idle", schedule_id |-> NoId, months_ahead |-> 0,
      start_date |-> NoDate, end_date |-> NoDate, current_date |-> NoDate,
      find_steps |-> 0, walk_steps |-> 0, pending |-> << >>,
      created |-> 0, skipped |-> 0, error |-> "" ]

InitWalk ==
    /\ enrollments = InitEnrollments
    /\ \E day \in DayOfWeek, from \in WindowFroms :
         \E until \in {NoDate, from + WindowSpan} :
            schedules = WindowSchedules(day, from, until)
    /\ classes = {}
    /\ nextClassId = 1
    /\ attendances = {}
    /\ nextAttId = 1
    /\ today = MkDate(2025, 11, 10)
    /\ runs = [ r \in RunIds |-> IdleWalk ]
    /\ last = NoCall

\* start_date, end_date and current_date are set up
WalkBegin(s, k) ==
    /\ runs[Walker].pc \notin {"find", "walk"}
    /\ runs' = [runs EXCEPT ![Walker] =
                  [ IdleWalk EXCEPT !.pc = "find", !.schedule_id = s,
                                    !.months_ahead = k,
                                    !.start_date = schedules[s].valid_from,
                                    !.end_date = EndDate(schedules[s], k),
                                    !.current_date = schedules[s].valid_from ]]
    /\ UNCHANGED << enrollments, schedules, classes, nextClassId, attendances,
                    nextAttId, today, last >>

\* while current_date.weekday() != target_weekday: current_date += 1 day,
\* giving up once current_date > start_date + 7 days
FindStep ==
    /\ runs[Walker].pc = "find"
    /\ \E w \in { runs[Walker] } :
         IF Weekday(w.current_date) = DAY_MAP[schedules[w.schedule_id].day]
         THEN /\ runs' = [runs EXCEPT ![Walker].pc = "walk"]
              /\ UNCHANGED last
         ELSE IF w.current_date + 1 > w.start_date + 7
         THEN /\ runs' = [runs EXCEPT ![Walker].pc = "done",
                                      ![Walker].current_date = @ + 1,
                                      ![Walker].find_steps = @ + 1,
                                      ![Walker].error = "weekday not found"]
              /\ last' = [ NoCall EXCEPT !.op = "generate_schedule",
                                         !.id = w.schedule_id,
                                         !.arg = w.months_ahead,
                                         !.errors = << "weekday not found" >> ]
         ELSE /\ runs' = [runs EXCEPT ![Walker].current_date = @ + 1,
                                      ![Walker].find_steps = @ + 1]
              /\ UNCHANGED last
    /\ UNCHANGED << enrollments, schedules, classes, nextClassId, attendances,
                    nextAttId, today >>

AfterHoliday_Stuck(current_date) == current_date

\* the holiday branch: current_date += timedelta(weeks=1); continue
AfterHoliday(current_date) == current_date + 7

\* while current_date <= end_date: one iteration; past end_date the stats
\* are returned and the caller commits
WalkStep ==
    /\ runs[Walker].pc = "walk"
    /\ \E w \in { runs[Walker] } :
       \E schedule \in { schedules[w.schedule_id] } :
       \E found \in { ExistingClasses(classes, schedule, w.current_date) } :
         IF w.current_date > w.end_date
         THEN /\ \E db \in { Flush(DB, w.pending) } :
                    /\ classes' = db.classes
                    /\ nextClassId' = db.nextId
              /\ runs' = [runs EXCEPT ![Walker].pc = "done",
                                      ![Walker].pending = << >>]
              /\ last' = [ NoCall EXCEPT !.op = "generate_schedule",
                                         !.id = w.schedule_id,
                                         !.arg = w.months_ahead,
                                         !.created = w.created,
                                         !.skipped = w.skipped ]
         ELSE IF is_holiday(w.current_date)
         THEN /\ runs' = [runs EXCEPT
                            ![Walker].current_date = AfterHoliday(@),
                            ![Walker].walk_steps = @ + 1,
                            ![Walker].skipped = @ + 1]
              /\ UNCHANGED << classes, nextClassId, last >>
         ELSE IF Cardinality(found) > 1
         THEN /\ runs' = [runs EXCEPT ![Walker].pc = "failed",
                                      ![Walker].pending = << >>]
              /\ last' = [ NoCall EXCEPT !.op = "generate_schedule",
                                         !.id = w.schedule_id,
                                         !.arg = w.months_ahead,
                                         !.ok = FALSE, !.raised = TRUE ]
              /\ UNCHANGED << classes, nextClassId >>
         ELSE IF found # {}
         THEN /\ runs' = [runs EXCEPT ![Walker].current_date = @ + 7,
                                      ![Walker].walk_steps = @ + 1,
                                      ![Walker].skipped = @ + 1]
              /\ UNCHANGED << classes, nextClassId, last >>
         ELSE /\ runs' = [runs EXCEPT
                            ![Walker].current_date = @ + 7,
                            ![Walker].walk_steps = @ + 1,
                            ![Walker].created = @ + 1,
                            ![Walker].pending =
                               Append(@, NewClass(schedule, schedule.enrollment_id,
                                                  enrollments[schedule.enrollment_id],
                                                  w.current_date))]
              /\ UNCHANGED << classes, nextClassId, last >>
    /\ UNCHANGED << enrollments, schedules, attendances, nextAttId, today >>

NextWalk ==
    \/ \E k \in 0..MaxWindowMonths : WalkBegin(1, k)
    \/ FindStep
    \/ WalkStep

\* the coroutine is always resumed, so a loop that can step does step
SpecWalk ==
    InitWalk /\ [][NextWalk]_vars /\ WF_vars(FindStep) /\ WF_vars(WalkStep)

(***************************************************************************)
(* Group enrollments taking schedules in one slot.                         *)
(***************************************************************************)

InitGroup ==
    /\ enrollments = [ e \in 1..MaxSlotRows |-> SlotEnrollment("group") ]
    /\ schedules = << >>
    /\ classes = {}
    /\ nextClassId = 1
    /\ attendances = {}
    /\ nextAttId = 1
    /\ today = ConflictToday
    /\ runs = NoRuns
    /\ last = NoCall

\* POST /schedules for a group enrollment, Monday 16:00 or 16:30
CreateGroupSchedule(e, time) ==
    CreateScheduleUpTo(MaxSlotRows, e, "monday", time, 60, NewValidFrom)

NextGroup ==
    \E e \in 1..MaxSlotRows, time \in {16 * 60, 16 * 60 + 30} :
       CreateGroupSchedule(e, time)

SpecGroup == InitGroup /\ [][NextGroup]_vars

(***************************************************************************)
(* The credit ledger from an empty enrollment, with POST /classes.         *)
(***************************************************************************)

\* class_crud.create: Class(**class_data.model_dump()), type as sent
CreateClass(e, type) ==
    /\ nextClassId <= LedgerClasses + MaxRecoveries
    /\ IF e \notin DOMAIN enrollments
       THEN Rejected("create_class", e, type, "Inscripcion no encontrada")
       ELSE /\ classes' = classes \cup
                  { [ id |-> nextClassId, schedule_id |-> NoId, enrollment_id |-> e,
                      teacher_id |-> TeacherId, date |-> RecoveryDate,
                      time |-> Time1800, duration |-> 45, status |-> "scheduled",
                      type |-> type, format |-> "individual" ] }
            /\ nextClassId' = nextClassId + 1
            /\ last' = [ NoCall EXCEPT !.op = "create_class", !.id = e,
                                       !.to = type ]
            /\ UNCHANGED << enrollments, schedules, attendances, nextAttId,
                            today, runs >>

\* the enrollment of the ledger with nothing on file; the serial of the
\* classes table has been used before
InitLedger ==
    /\ enrollments = InitEnrollments
    /\ schedules = InitSchedules
    /\ classes = {}
    /\ nextClassId = LedgerClasses + 1
    /\ attendances = {}
    /\ nextAttId = 1
    /\ today = MkDate(2025, 12, 10)
    /\ runs = NoRuns
    /\ last = NoCall

NextLedger ==
    \/ \E i \in 1..(LedgerClasses + MaxRecoveries), st \in AttendanceStatus :
          MarkAttendance(i, st)
    \/ \E i \in 1..MaxRecoveries, st \in AttendanceStatus :
          UpdateAttendance(i, st)
    \/ \E t \in ClassType : CreateClass(1, t)
    \/ CreateRecovery(1, "recovery")
    \/ \E i \in 1..(LedgerClasses + MaxRecoveries) : DeleteRecovery(i)

SpecLedger == InitLedger /\ [][NextLedger]_vars

(***************************************************************************)
(* Properties of the generation engine (Spec, SpecStatus).                 *)
(***************************************************************************)

\* C2 as stated: a second identical generate_for_enrollment right after the
\* first leaves the Class rows as they were and reports created = 0 and
\* skipped = the first run's created count.
C2_SecondRunSkipsFirstCreated ==
    [][ ( /\ last.op = "generate" /\ last'.op = "generate"
          /\ last'.id = last.id /\ last'.arg = last.arg )
        => ( /\ classes' = classes
             /\ last'.created = 0
             /\ last'.skipped = last.created ) ]_vars

\* C2 amended: a second identical generate_for_enrollment right after the
\* first leaves the Class rows as they were and reports created = 0 and
\* skipped = the first run's created count plus the first run's skipped
\* count (holidays and rows that already existed are skipped again).
C2_SecondRunIdempotent ==
    [][ ( /\ last.op = "generate" /\ last'.op = "generate"
          /\ last'.id = last.id /\ last'.arg = last.arg )
        => ( /\ classes' = classes
             /\ nextClassId' = nextClassId
             /\ last'.created = 0
             /\ last'.skipped = last.created + last.skipped ) ]_vars

\* a re-run for enrollment 1 that skipped two holidays and two existing rows
C2_Witness ==
    /\ last.op = "generate" /\ last.id = 1 /\ last.arg = 1 /\ last.ok
    /\ last.created = 0 /\ last.skipped = 4
    /\ Cardinality({ c \in classes : c.schedule_id = 1 }) = 2

\* C3: whatever sequence of generate_for_enrollment, generate_monthly,
\* delete_future_for_schedule and cancel_future_for_enrollment calls ran, no
\* two Class rows with a schedule_id share (schedule_id, date, time).
C3_UniquePerScheduleDateTime ==
    \A c1, c2 \in classes :
        ( /\ c1.schedule_id # NoId
          /\ c1.schedule_id = c2.schedule_id
          /\ c1.date = c2.date
          /\ c1.time = c2.time ) => c1.id = c2.id

\* generation ran again over a schedule that has a cancelled row and a
\* deleted row: it created one class and skipped the cancelled one
C3_Witness ==
    /\ last.op = "generate" /\ last.ok /\ last.created > 0
    /\ nextClassId > 3
    /\ \E c \in classes :
          /\ c.enrollment_id = last.id
          /\ c.status = "cancelled"
          /\ c.schedule_id # NoId

\* C7: generate_for_enrollment for a missing, suspended or withdrawn
\* enrollment returns an error result with created = skipped = 0, raises
\* nothing and leaves every Class row as it was.
C7_InactiveEnrollmentIsReported ==
    [][ ( /\ last'.op = "generate"
          /\ \/ last'.id \notin DOMAIN enrollments
             \/ enrollments[last'.id].status \in {"suspended", "withdrawn"} )
        => ( /\ last'.error # ""
             /\ last'.created = 0
             /\ last'.skipped = 0
             /\ ~last'.raised
             /\ classes' = classes
             /\ nextClassId' = nextClassId ) ]_vars

\* generation was refused for a suspended enrollment whose schedule still
\* has dates without a class
C7_Witness ==
    /\ last.op = "generate" /\ last.id = 1 /\ last.arg = 1
    /\ last.error # ""
    /\ enrollments[1].status = "suspended"
    /\ { c \in classes : c.schedule_id = 1 } = {}
    /\ classes # {}

(***************************************************************************)
(* Properties of the reconciler (SpecReconcile).                           *)
(***************************************************************************)

\* C8: delete_future_for_schedule(s, from_date) removes exactly the rows with
\* schedule_id = s, status scheduled and date >= from_date and returns their
\* number; every other row stays, unchanged.
C8_DeleteFutureExact ==
    [][ last'.op = "delete_future"
        => LET s == last'.id
               d == last'.arg
               gone == { c \in classes :
                           c.schedule_id = s /\ c.status = "scheduled" /\ c.date >= d }
           IN  /\ classes' = classes \ gone
               /\ last'.count = Cardinality(gone)
               /\ \A c \in classes :
                     ( \/ c.status \in {"completed", "cancelled", "rescheduled"}
                       \/ c.date < d
                       \/ c.schedule_id # s ) => c \in classes' ]_vars

\* a deletion removed a scheduled row while a completed row of the same
\* schedule inside the range, a row of another schedule inside the range and
\* a manual row stayed
C8_Witness ==
    /\ last.op = "delete_future" /\ last.count > 0
    /\ \E c \in classes :
          c.schedule_id = last.id /\ c.date >= last.arg /\ c.status = "completed"
    /\ \E c \in classes :
          c.schedule_id \notin {NoId, last.id} /\ c.date >= last.arg
          /\ c.status = "scheduled"
    /\ \E c \in classes : c.schedule_id = NoId

\* C9: cancel_future_for_enrollment(e, from_date) sets status cancelled on
\* exactly the rows of enrollment e with status scheduled and date >=
\* from_date, returns their number, deletes no row and changes no other row.
C9_CancelFutureExact ==
    [][ last'.op = "cancel_future"
        => LET e == last'.id
               d == last'.arg
               hit == { c \in classes :
                          c.enrollment_id = e /\ c.status = "scheduled" /\ c.date >= d }
           IN  /\ classes' = (classes \ hit) \cup
                               { [c EXCEPT !.status = "cancelled"] : c \in hit }
               /\ last'.count = Cardinality(hit)
               /\ { c.id : c \in classes' } = { c.id : c \in classes }
               /\ \A c \in classes :
                     ( \/ c.status \in {"completed", "cancelled", "rescheduled"}
                       \/ c.date < d
                       \/ c.enrollment_id # e ) => c \in classes' ]_vars

\* a cancellation hit one row while a completed row of the enrollment inside
\* the range and a scheduled row of the other enrollment inside the range
\* kept their status
C9_Witness ==
    /\ last.op = "cancel_future" /\ last.count > 0
    /\ \E c \in classes :
          c.enrollment_id = last.id /\ c.date >= last.arg /\ c.status = "completed"
    /\ \E c \in classes :
          c.enrollment_id # last.id /\ c.date >= last.arg /\ c.status = "scheduled"
    /\ \E c \in classes :
          c.enrollment_id = last.id /\ c.date >= last.arg /\ c.status = "cancelled"

(***************************************************************************)
(* Properties of the generation window (SpecWindow).                       *)
(***************************************************************************)

\* C5: a successful generate_for_enrollment creates no class on a date of the
\* holiday table, and its skipped count is one per weekly occurrence inside
\* the window that is a holiday, plus one per occurrence already on file.
C5_HolidaysSkippedOnce ==
    [][ (last'.op = "generate" /\ last'.ok) =>
        LET mine == { i \in DOMAIN schedules :
                        schedules[i].enrollment_id = last'.id /\ schedules[i].active }
            occ == [ i \in mine |->
                       { d \in schedules[i].valid_from
                                 .. EndDate(schedules[i], last'.arg) :
                           Weekday(d) = DAY_MAP[schedules[i].day] } ]
            onHoliday == UNION { { << i, d >> : d \in occ[i] \cap ALL_HOLIDAYS } :
                                 i \in mine }
            onFile == { c \in classes : /\ c.schedule_id \in mine
                                        /\ c.date \in occ[c.schedule_id]
                                        /\ c.date \notin ALL_HOLIDAYS
                                        /\ c.time = schedules[c.schedule_id].time }
        IN  /\ \A c \in classes' \ classes : c.date \notin ALL_HOLIDAYS
            /\ \A c \in classes' : c.schedule_id # NoId => c.date \notin ALL_HOLIDAYS
            /\ last'.skipped = Cardinality(onHoliday) + Cardinality(onFile)
      ]_vars

\* a run whose window holds at least two holiday occurrences and that created
\* classes around them
C5_Witness ==
    /\ last.op = "generate" /\ last.ok /\ last.created > 0
    /\ Cardinality({ d \in ALL_HOLIDAYS :
                        /\ Weekday(d) = DAY_MAP[schedules[1].day]
                        /\ d >= schedules[1].valid_from
                        /\ d <= EndDate(schedules[1], last.arg) }) >= 2
    /\ last.skipped >= 2

\* C6: generate_for_enrollment(e, k) creates a class for exactly the dates d of
\* each active schedule s with weekday(d) = s.day, s.valid_from <= d <= the
\* last day of the month k months after the month of s.valid_from (clamped to
\* s.valid_until), d not a holiday and no class (s.id, d, s.time) on file; the
\* new classes carry the schedule's time, duration, enrollment and teacher,
\* status scheduled, type regular and the enrollment's current format.
C6_ExactDatesAndFields ==
    [][ (last'.op = "generate" /\ last'.ok) =>
        LET e == last'.id
            k == last'.arg
            new == classes' \ classes
            mine == { i \in DOMAIN schedules :
                        schedules[i].enrollment_id = e /\ schedules[i].active }
            LastDay(mi) == MkDate(mi \div 12, (mi % 12) + 1,
                                  DaysInMonth(mi \div 12, (mi % 12) + 1))
            MonthEnd(s) == LastDay(YearOf(s.valid_from) * 12
                                     + (MonthOf(s.valid_from) - 1) + k)
            WindowEnd(s) == IF s.valid_until # NoDate /\ s.valid_until < MonthEnd(s)
                            THEN s.valid_until ELSE MonthEnd(s)
            Expected(s) == { d \in s.valid_from .. WindowEnd(s) :
                               /\ Weekday(d) = DAY_MAP[s.day]
                               /\ d \notin ALL_HOLIDAYS
                               /\ ~ \E c \in classes : /\ c.schedule_id = s.id
                                                       /\ c.date = d
                                                       /\ c.time = s.time }
        IN  /\ classes \subseteq classes'
            /\ \A c \in new : c.schedule_id \in mine
            /\ \A i \in mine :
                  \E dates \in { Expected(schedules[i]) } :
                     /\ { c.date : c \in { x \in new : x.schedule_id = i } } = dates
                     /\ Cardinality({ x \in new : x.schedule_id = i })
                           = Cardinality(dates)
            /\ \A c \in new :
                  /\ c.time = schedules[c.schedule_id].time
                  /\ c.duration = schedules[c.schedule_id].duration
                  /\ c.status = "scheduled"
                  /\ c.type = "regular"
                  /\ c.format = enrollments[e].format
                  /\ c.enrollment_id = schedules[c.schedule_id].enrollment_id
                  /\ c.teacher_id = schedules[c.schedule_id].teacher_id
            /\ last'.created = Cardinality(new)
      ]_vars

\* a December schedule extended into January by a second run with k = 1,
\* after the format of the enrollment was changed
C6_Witness ==
    /\ last.op = "generate" /\ last.ok /\ last.arg = 1
    /\ MonthOf(schedules[1].valid_from) = 12
    /\ last.created >= 3 /\ last.skipped >= 3
    /\ \E c \in classes : c.schedule_id = 1 /\ c.date >= MkDate(2026, 1, 25)
    /\ \E c, x \in classes : c.format # x.format

(***************************************************************************)
(* Properties of the credit ledger (SpecCredit).                           *)
(***************************************************************************)

\* C1: credits never drop below 0; changing an attendance away from license,
\* or creating a recovery class, while the enrollment has 0 credits is
\* rejected and leaves enrollments, classes and attendances as they were.
C1_CreditsNeverNegative ==
    /\ [](\A e \in DOMAIN enrollments : enrollments[e].credits >= 0)
    /\ [][ LET wouldRevoke ==
                 /\ last'.op = "update_attendance"
                 /\ \E a \in attendances :
                       /\ a.id = last'.id
                       /\ a.status = "license"
                       /\ last'.to \in {"present", "absent"}
                       /\ enrollments[a.enrollment_id].credits = 0
               wouldSpend ==
                 /\ last'.op = "create_recovery"
                 /\ last'.id \in DOMAIN enrollments
                 /\ enrollments[last'.id].credits = 0
           IN  (wouldRevoke \/ wouldSpend) =>
                 /\ ~last'.ok
                 /\ enrollments' = enrollments
                 /\ classes' = classes
                 /\ attendances' = attendances
                 /\ nextClassId' = nextClassId
                 /\ nextAttId' = nextAttId
         ]_vars

\* the last credit was spent on a recovery class and a license is then
\* taken back: the request was refused
C1_Witness ==
    /\ last.op = "update_attendance" /\ ~last.ok
    /\ enrollments[1].credits = 0
    /\ \E c \in classes : c.type = "recovery"
    /\ \E a \in attendances : a.id = last.id /\ a.status = "license"

(***************************************************************************)
(* Properties of concurrent generation (SpecRace).                         *)
(***************************************************************************)

\* C4: when two generation runs interleave, at most one class row per
\* (schedule_id, date, time) is persisted, and no run fails: the run that
\* loses the race counts the date as skipped.
C4_RaceKeepsOneRow ==
    /\ \A c, x \in classes :
          (c.schedule_id = x.schedule_id /\ c.date = x.date /\ c.time = x.time)
            => c.id = x.id
    /\ \A r \in RunIds : runs[r].pc # "failed"

\* both runs passed the exists-check of the same date before either
\* committed, and both have committed since
C4_Witness ==
    /\ \A r \in RunIds : runs[r].pc = "done" /\ runs[r].error = ""
    /\ runs[1].enrollment_id = runs[2].enrollment_id
    /\ runs[1].created > 0 /\ runs[2].created > 0
    /\ \E c, x \in classes :
          /\ c.id # x.id
          /\ c.schedule_id = x.schedule_id /\ c.date = x.date /\ c.time = x.time

(***************************************************************************)
(* Properties of the monthly job (SpecMonthly).                            *)
(***************************************************************************)

\* C10: with the job run once in every month, after the run of month M every
\* active schedule of an active enrollment that is valid throughout month
\* M+1 has a class on each of its non-holiday weekly occurrences in M+1.
C10_HorizonKeepsRolling ==
    last.op = "monthly" =>
        LET mi == YearOf(today) * 12 + (MonthOf(today) - 1) + 1
            y == mi \div 12
            m == (mi % 12) + 1
            first == MkDate(y, m, 1)
            final == MkDate(y, m, DaysInMonth(y, m))
        IN  \A i \in DOMAIN schedules :
              ( /\ schedules[i].active
                /\ schedules[i].enrollment_id \in DOMAIN enrollments
                /\ enrollments[schedules[i].enrollment_id].status = "active"
                /\ schedules[i].valid_from <= first
                /\ (schedules[i].valid_until = NoDate
                      \/ schedules[i].valid_until >= final) )
              => \A d \in first..final :
                   (Weekday(d) = DAY_MAP[schedules[i].day] /\ d \notin ALL_HOLIDAYS)
                   => \E c \in classes : /\ c.schedule_id = i
                                          /\ c.date = d
                                          /\ c.time = schedules[i].time

\* the job of November has run for a schedule that began in October: its
\* classes end with October
C10_Witness ==
    /\ last.op = "monthly"
    /\ today = MkDate(2025, 11, 10)
    /\ schedules[1].valid_from = MkDate(2025, 10, 6)
    /\ classes # {}
    /\ \A c \in classes : c.date <= MkDate(2025, 11, 30)

(***************************************************************************)
(* Properties of the monthly job under faults (SpecFault).                 *)
(***************************************************************************)

\* C11: generate_monthly visits every active enrollment: a failure of one
\* enrollment is recorded in errors and the others are still processed, so
\* the job returns, and the enrollments processed plus those recorded as
\* failed are all the active enrollments.
C11_FailureDoesNotAbortJob ==
    [][ last'.op = "monthly" =>
          /\ ~last'.raised
          /\ last'.processed + Len(last'.errors)
               = Cardinality({ e \in DOMAIN enrollments :
                                 enrollments[e].status = "active" })
      ]_vars

\* the job ran over a table with two rows for one occurrence of the
\* schedule of enrollment 1 and ended in the exception of the exists-check
C11_Witness ==
    /\ last.op = "monthly" /\ last.raised
    /\ \E c, x \in classes :
          /\ c.id # x.id /\ c.schedule_id = 1 /\ x.schedule_id = 1
          /\ c.date = x.date /\ c.time = x.time
    /\ { c \in classes : c.enrollment_id = 2 } = {}

C13_RecoveryNeedsCredit ==
    [][ last'.op = "create_recovery" =>
        LET e == last'.id
            new == classes' \ classes
        IN  /\ last'.ok <=> (e \in DOMAIN enrollments /\ enrollments[e].credits >= 1)
            /\ classes \subseteq classes'
            /\ attendances' = attendances
            /\ last'.ok =>
                 /\ Cardinality(new) = 1
                 /\ \A c \in new : c.type = "recovery" /\ c.enrollment_id = e
                 /\ enrollments' = [enrollments EXCEPT ![e].credits = @ - 1]
            /\ ~last'.ok =>
                 /\ new = {}
                 /\ enrollments' = enrollments
      ]_vars

\* a request naming type regular was served with the last credit
C13_Witness ==
    /\ last.op = "create_recovery" /\ last.ok /\ last.to = "regular"
    /\ enrollments[1].credits = 0
    /\ Cardinality({ c \in classes : c.type = "recovery" }) = 1

\* C14: delete_recovery_class removes the Class and gives its enrollment one
\* credit exactly when the class exists, has type recovery and has no
\* Attendance; otherwise it fails and classes, attendances and credits stay.
C14_DeleteRecoveryRefunds ==
    [][ last'.op = "delete_recovery" =>
        LET hit == { c \in classes : c.id = last'.id }
            deletable == { c \in hit : /\ c.type = "recovery"
                                       /\ ~ \E a \in attendances : a.class_id = c.id }
        IN  /\ last'.ok <=> deletable # {}
            /\ attendances' = attendances
            /\ last'.ok =>
                 /\ classes' = classes \ deletable
                 /\ \A c \in deletable :
                      enrollments' =
                        [enrollments EXCEPT ![c.enrollment_id].credits = @ + 1]
            /\ ~last'.ok =>
                 /\ classes' = classes
                 /\ enrollments' = enrollments
      ]_vars

\* the deletion of a recovery class with a marked attendance was refused
\* after another recovery class had been deleted and refunded
C14_Witness ==
    /\ last.op = "delete_recovery" /\ ~last.ok
    /\ \E c \in classes : /\ c.id = last.id /\ c.type = "recovery"
                          /\ \E a \in attendances : a.class_id = c.id
    /\ nextClassId - 1 > Cardinality(classes)
    /\ enrollments[1].credits >= 1

(***************************************************************************)
(* Properties of concurrent recovery requests (SpecCreditRace).            *)
(***************************************************************************)

\* C15: however recovery-class creations and markings interleave, every
\* recovery class created has consumed one credit: the recovery classes and
\* the credits left together are the credits granted (one per license).
C15_OneCreditPerRecovery ==
    Cardinality({ c \in classes : c.type = "recovery" /\ c.enrollment_id = 1 })
      + enrollments[1].credits
      = Cardinality({ a \in attendances :
                        a.status = "license" /\ a.enrollment_id = 1 })

\* two requests were served from the single credit of one license
C15_Witness ==
    /\ \A r \in RunIds : runs[r].pc = "done"
    /\ Cardinality({ c \in classes : c.type = "recovery" }) = 2
    /\ Cardinality({ a \in attendances : a.status = "license" }) = 1
    /\ enrollments[1].credits = 0

(***************************************************************************)
(* Properties of the conflict test (SpecConflict).                         *)
(***************************************************************************)

\* C16: check_schedule_conflict returns a schedule exactly when some active,
\* unexpired schedule of the same teacher and day, other than the excluded
\* one, has a window [start, start + duration) that overlaps the candidate's
\* and the two are not group-format slots with the same start and duration.
C16_ConflictIffWindowsOverlap ==
    last.op = "check_conflict" =>
       LET c == last.arg
           hits == { i \in ExistingSchedules(schedules, today, c.teacher_id,
                                             c.day, c.exclude_schedule_id) :
                       /\ c.time < schedules[i].time + schedules[i].duration
                       /\ c.time + c.duration > schedules[i].time
                       /\ ~SharesGroupSlot(enrollments, schedules[i], c.time,
                                           c.duration,
                                           FormatOf(enrollments, c.enrollment_id)) }
       IN  (last.id # NoId) <=> (hits # {})

\* a candidate inside a window that runs past midnight is let through
C16_Witness ==
    /\ last.op = "check_conflict"
    /\ last.id = NoId
    /\ last.arg.exclude_schedule_id = NoId
    /\ schedules[1].active
    /\ schedules[1].time = 23 * 60
    /\ schedules[1].duration = 90
    /\ last.arg.time = 23 * 60 + 30
    /\ last.arg.duration = 30
    /\ schedules[2].day = "tuesday"

\* C17: the conflict test is symmetric: candidate B against existing slot A
\* is a conflict exactly when candidate A against existing slot B is.
C17_ConflictSymmetric ==
    (last.op = "check_conflict" /\ last.arg.enrollment_id # NoId) =>
       LET c == last.arg
           B == [ id |-> 1, enrollment_id |-> c.enrollment_id,
                  teacher_id |-> c.teacher_id, day |-> c.day,
                  time |-> c.time, duration |-> c.duration,
                  valid_from |-> MkDate(2025, 12, 1), valid_until |-> NoDate,
                  active |-> TRUE ]
       IN  \A i \in ExistingSchedules(schedules, today, c.teacher_id, c.day, NoId) :
              (check_schedule_conflict(enrollments, [ k \in {i} |-> schedules[i] ],
                                       today, c.teacher_id, c.day, c.time,
                                       c.duration, NoId, c.enrollment_id) # {})
              <=>
              (check_schedule_conflict(enrollments, [ k \in {1} |-> B ], today,
                                       schedules[i].teacher_id, schedules[i].day,
                                       schedules[i].time, schedules[i].duration,
                                       NoId, schedules[i].enrollment_id) # {})

\* a later slot that starts inside an earlier one, found from both sides
C17_Witness ==
    /\ last.op = "check_conflict"
    /\ last.id = 1
    /\ last.arg.enrollment_id = 1
    /\ last.arg.time = 16 * 60
    /\ last.arg.duration = 60
    /\ schedules[1].time = 16 * 60 + 30
    /\ check_schedule_conflict(enrollments,
          [ k \in {1} |-> [ schedules[1] EXCEPT !.time = 16 * 60, !.duration = 60 ] ],
          today, TeacherId, "monday", 16 * 60 + 30, schedules[1].duration,
          NoId, schedules[1].enrollment_id) = {1}

(***************************************************************************)
(* Properties of schedule creation and editing (SpecBooking).              *)
(***************************************************************************)

\* C18: after any creations and updates of schedules, two active, unexpired
\* schedules of one teacher and weekday never have overlapping windows,
\* unless both are group-format slots with the same start and duration.
C18_NoDoubleBooking ==
    \A i, j \in DOMAIN schedules :
       (/\ i # j
        /\ schedules[i].active /\ schedules[j].active
        /\ (schedules[i].valid_until = NoDate \/ schedules[i].valid_until >= today)
        /\ (schedules[j].valid_until = NoDate \/ schedules[j].valid_until >= today)
        /\ schedules[i].teacher_id = schedules[j].teacher_id
        /\ schedules[i].day = schedules[j].day
        /\ schedules[i].time < schedules[j].time + schedules[j].duration
        /\ schedules[j].time < schedules[i].time + schedules[i].duration)
       => /\ enrollments[schedules[i].enrollment_id].format = "group"
          /\ enrollments[schedules[j].enrollment_id].format = "group"
          /\ schedules[i].time = schedules[j].time
          /\ schedules[i].duration = schedules[j].duration

\* a deactivated schedule was switched on again over the slot of another
C18_Witness ==
    /\ last.op = "update_schedule"
    /\ last.ok
    /\ DOMAIN schedules = {1, 2}
    /\ \A i \in {1, 2} : /\ schedules[i].active
                         /\ schedules[i].valid_until = NoDate
                         /\ schedules[i].day = "monday"
                         /\ schedules[i].time = 16 * 60
                         /\ schedules[i].duration = 60
                         /\ schedules[i].enrollment_id = 1

(***************************************************************************)
(* Properties of the slot validation (SpecSlot).                           *)
(***************************************************************************)

C20_StatusMovesForward ==
    [][ \A e \in DOMAIN enrollments :
          enrollments'[e].status # enrollments[e].status =>
             << enrollments[e].status, enrollments'[e].status >> \in
                { << "active", "suspended" >>, << "active", "withdrawn" >>,
                  << "suspended", "withdrawn" >>, << "suspended", "active" >> }
      ]_vars

\* a withdrawn enrollment has been reactivated
C20_Witness ==
    /\ last.op = "reactivate"
    /\ last.was = "withdrawn"
    /\ enrollments[last.id].status = "active"

(***************************************************************************)
(* Properties of the attendance register (SpecCredit).                     *)
(***************************************************************************)

\* C21: every Class has at most one Attendance, and marking a class that
\* already has one is rejected and leaves the attendances and the credits
\* as they were.
C21_OneAttendancePerClass ==
    /\ [](\A c \in classes :
             Cardinality({ a \in attendances : a.class_id = c.id }) <= 1)
    /\ [][ (/\ last'.op = "mark_attendance"
            /\ \E a \in attendances : a.class_id = last'.id)
           => /\ ~last'.ok
              /\ attendances' = attendances
              /\ enrollments' = enrollments ]_vars

\* a second license for a class already on license was refused
C21_Witness ==
    /\ last.op = "mark_attendance"
    /\ ~last.ok
    /\ last.to = "license"
    /\ \E a \in attendances : a.class_id = last.id /\ a.status = "license"
    /\ Cardinality(attendances) = 1
    /\ enrollments[1].credits = 1

(***************************************************************************)
(* Properties of marked classes under reconciliation (SpecMarked).         *)
(***************************************************************************)

C23_StatusChangeCancelsFuture ==
    (last.op \in {"suspend", "withdraw"} /\ last.ok) =>
       ~ \E c \in classes : /\ c.enrollment_id = last.id
                            /\ c.status = "scheduled"
                            /\ c.date >= today

\* a withdrawn enrollment that still has a scheduled class ahead
C23_Witness ==
    /\ last.op = "withdraw"
    /\ last.ok
    /\ enrollments[last.id].status = "withdrawn"
    /\ \E c \in classes : /\ c.enrollment_id = last.id
                          /\ c.status = "scheduled"
                          /\ c.date > today

\* C24: when generate_for_enrollment succeeds for an enrollment whose future
\* classes had been cancelled (suspension, then reactivation), every
\* non-holiday weekly occurrence of its active schedules inside the
\* generation window that had been cancelled has a scheduled Class again.
C24_RegeneratedAfterReactivation ==
    (last.op = "generate" /\ last.ok) =>
       \A i \in { j \in DOMAIN schedules :
                    schedules[j].enrollment_id = last.id /\ schedules[j].active } :
          \A d \in schedules[i].valid_from .. EndDate(schedules[i], last.arg) :
             (/\ Weekday(d) = DAY_MAP[schedules[i].day]
              /\ ~is_holiday(d)
              /\ \E c \in classes : /\ c.schedule_id = i
                                    /\ c.date = d
                                    /\ c.status = "cancelled")
             => \E c \in classes : /\ c.schedule_id = i
                                   /\ c.date = d
                                   /\ c.status = "scheduled"

\* generation for the reactivated enrollment skipped its cancelled dates
C24_Witness ==
    /\ last.op = "generate"
    /\ last.ok
    /\ last.created = 0
    /\ last.skipped > 0
    /\ enrollments[last.id].status = "active"
    /\ \E c \in classes : /\ c.enrollment_id = last.id
                          /\ c.status = "cancelled"
                          /\ c.date > today
    /\ ~ \E c \in classes : c.enrollment_id = last.id /\ c.status = "scheduled"

(***************************************************************************)
(* Properties of a schedule swap (SpecSwap).                               *)
(***************************************************************************)

\* C25: when the old schedule is closed with valid_until = d, its future
\* classes are deleted from d and the new schedule is created with
\* valid_from = d, no scheduled Class of the old schedule is dated d or
\* later, and its classes before d and its completed classes remain.
C25_SwapLeavesNoOldFuture ==
    [][ /\ last'.op = "delete_future" =>
             \A c \in classes :
                (c.date < last'.arg \/ c.status = "completed") => c \in classes'
        /\ (/\ last.op = "delete_future"
            /\ last'.op = "create_schedule" /\ last'.ok
            /\ schedules[last.id].valid_until = last.arg
            /\ schedules'[last'.id].valid_from = last.arg)
           => /\ classes \subseteq classes'
              /\ ~ \E c \in classes' : /\ c.schedule_id = last.id
                                       /\ c.status = "scheduled"
                                       /\ c.date >= last.arg ]_vars

\* the new schedule was opened on the old schedule's last Thursday, after
\* the old classes from that day had been deleted, and the old schedule has
\* a scheduled class on that day again
C25_Witness ==
    /\ last.op = "create_schedule"
    /\ last.ok
    /\ schedules[last.id].valid_from = MkDate(2026, 1, 8)
    /\ schedules[last.id].day = "monday"
    /\ schedules[1].valid_until = MkDate(2026, 1, 8)
    /\ nextClassId - 1 > Cardinality(classes)
    /\ \E c \in classes : /\ c.schedule_id = 1
                          /\ c.status = "scheduled"
                          /\ c.date = MkDate(2026, 1, 8)

(***************************************************************************)
(* Properties of schedule deletion (SpecRemove).                           *)
(***************************************************************************)

\* C26: deleting a schedule removes only the Schedule row; every Class
\* generated from it stays with all its fields, except that its schedule_id
\* becomes null, and no Class is deleted or cancelled.
C26_DeleteScheduleKeepsClasses ==
    [][ (last'.op = "delete_schedule" /\ last'.ok) =>
          /\ DOMAIN schedules' = DOMAIN schedules \ {last'.id}
          /\ \A i \in DOMAIN schedules' : schedules'[i] = schedules[i]
          /\ Cardinality(classes') = Cardinality(classes)
          /\ \A c \in classes :
                IF c.schedule_id = last'.id
                THEN [ c EXCEPT !.schedule_id = NoId ] \in classes'
                ELSE c \in classes'
          /\ UNCHANGED << enrollments, attendances >> ]_vars

\* a schedule with a scheduled, a completed and a cancelled class was deleted
C26_Witness ==
    /\ last.op = "delete_schedule"
    /\ last.ok
    /\ last.id \notin DOMAIN schedules
    /\ \A st \in {"scheduled", "cancelled"} :
          \E c \in classes : /\ c.schedule_id = NoId
                             /\ c.type = "regular"
                             /\ c.status = st

(***************************************************************************)
(* Properties of the two loops of the generator (SpecWalk).                *)
(***************************************************************************)

\* C27: every generation terminates: the search for the first matching
\* weekday takes at most 7 one-day steps, every iteration of the weekly walk
\* moves current_date one week on, the walk stops as soon as current_date
\* is past end_date, and a started run always reaches its end.
C27_GenerationTerminates ==
    /\ [](runs[Walker].find_steps <= 7)
    /\ [][ runs[Walker].pc = "walk" =>
             IF runs[Walker].current_date > runs[Walker].end_date
             THEN runs'[Walker].pc = "done"
             ELSE \/ runs'[Walker].pc = "failed"
                  \/ /\ runs'[Walker].pc = "walk"
                     /\ runs'[Walker].current_date
                           = runs[Walker].current_date + 7 ]_vars
    /\ (runs[Walker].pc \in {"find", "walk"})
          ~> (runs[Walker].pc \in {"done", "failed"})

\* a run that searched six days for its weekday, skipped holidays and
\* created classes has ended
C27_Witness ==
    /\ runs[Walker].pc = "done"
    /\ runs[Walker].find_steps = 6
    /\ runs[Walker].skipped >= 2
    /\ runs[Walker].created >= 2
    /\ runs[Walker].current_date > runs[Walker].end_date

(***************************************************************************)
(* Properties of group slots (SpecGroup).                                  *)
(***************************************************************************)

\* C28: after any creations of schedules for group enrollments, the active,
\* unexpired schedules of active enrollments that share one (teacher, day,
\* start time) slot are never more than MAX_GROUP_CLASS_SIZE.
C28_GroupSlotWithinCap ==
    \A i \in DOMAIN schedules :
       Cardinality(SlotRows(enrollments, schedules, today,
                            schedules[i].teacher_id, schedules[i].day,
                            << schedules[i].time \div 60,
                               schedules[i].time % 60, 0 >>))
          <= MAX_GROUP_CLASS_SIZE

\* a fifth group enrollment was given the Monday 16:00 slot
C28_Witness ==
    /\ last.op = "create_schedule"
    /\ last.ok
    /\ Cardinality(DOMAIN schedules) = MAX_GROUP_CLASS_SIZE + 1
    /\ \A i \in DOMAIN schedules : /\ schedules[i].time = 16 * 60
                                   /\ schedules[i].active
                                   /\ schedules[i].enrollment_id = i

(***************************************************************************)
(* Properties of the ledger with manual classes (SpecLedger).              *)
(***************************************************************************)

\* C29: from credits = 0 with no classes and no attendances, after any
\* marking, attendance update, class creation, recovery creation and
\* recovery deletion, the credits of the enrollment are its attendances in
\* status license minus its recovery classes.
C29_CreditsAreLicensesMinusRecoveries ==
    enrollments[1].credits =
       Cardinality({ a \in attendances :
                       a.enrollment_id = 1 /\ a.status = "license" })
       - Cardinality({ c \in classes :
                         c.enrollment_id = 1 /\ c.type = "recovery" })

\* a credit was refunded although no license was ever marked
C29_Witness ==
    /\ last.op = "delete_recovery"
    /\ last.ok
    /\ attendances = {}
    /\ nextAttId = 1
    /\ enrollments[1].credits = 1

(***************************************************************************)
(* Agreement of the two slot checks (SpecSlot).                            *)
(***************************************************************************)

\* C30: whenever validate_slot_availability answers available for a slot
\* and a format, check_schedule_conflict in the same state finds no conflict
\* for a schedule at that teacher, day and start time of an enrollment of
\* that format, whatever its duration.
C30_SlotChecksAgree ==
    (/\ last.op = "validate_slot"
     /\ last.arg.result.available
     /\ ParseTime(last.arg.time)[3] = 0)
    => LET applicant == MaxSlotRows + 2
           enr == [ e \in DOMAIN enrollments \cup {applicant} |->
                      IF e = applicant THEN SlotEnrollment(last.to)
                                       ELSE enrollments[e] ]
       IN  \A duration \in SlotDurations :
              check_schedule_conflict(enr, schedules, today, TeacherId, "monday",
                                      last.arg.time[1] * 60 + last.arg.time[2],
                                      duration, NoId, applicant) = {}

\* the 16:00 slot is reported free for an individual enrollment while the
\* 16:30 schedule of the same teacher overlaps a 60-minute class at 16:00
C30_Witness ==
    /\ last.op = "validate_slot"
    /\ last.to = "individual"
    /\ last.arg.time = << 16, 0 >>
    /\ last.arg.result.available
    /\ last.arg.result.current_students = 0
    /\ DOMAIN schedules = {1}
    /\ schedules[1].time = 16 * 60 + 30
    /\ schedules[1].active
    /\ check_schedule_conflict(enrollments, schedules, today, TeacherId, "monday",
                               16 * 60, 60, NoId, NoId) = {1}

====
